---------------------------- MODULE Spec2Model ----------------------------
(***************************************************************************)
(* Model of the zbox transactional storage engine: the file storage        *)
(* backend (src/src/volume/storage/file/file.rs) with its sessions,        *)
(* snapshots, entity map and sector manager, and the transaction manager   *)
(* (src/src/trans/txmgr.rs) that drives it.                                *)
(*                                                                         *)
(* Byte strings are kept run-length encoded (a sequence of <<value, count>>*)
(* runs, no empty run, no two adjacent runs of the same value), so that    *)
(* the real block size of 8192 bytes is kept.                              *)
(***************************************************************************)
EXTENDS Integers, Sequences, FiniteSets, TLC

\* ------------------------------------------------------------------------
\* Program constants
\* ------------------------------------------------------------------------

\* file.rs:22  const MAX_SNAPSHOT_CNT: usize = 2
MAX_SNAPSHOT_CNT == 2

\* sector.rs (imported at file.rs:17); spec section 6: BLK_SIZE = 8192
BLK_SIZE == 8192

\* ------------------------------------------------------------------------
\* Bounds of the model
\* ------------------------------------------------------------------------

\* number of transaction ids handed out in one behaviour
MaxTx == 4

\* number of transaction ids handed out in one behaviour of the data
\* specification
MaxDataTx == 2

\* number of transaction ids handed out in one behaviour of the lock
\* specification
MaxLockTx == 2

\* number of transaction ids handed out in one behaviour of the transaction
\* manager specification
MaxMgrTx == 3

\* number of write/del calls issued inside one session
MaxOps == 3

\* number of write calls issued inside one session of the crash specification
MaxCrashOps == 2

\* number of write/del calls issued in one behaviour of the data
\* specification
MaxRunOps == 4

\* number of sessions that may be live at the same time
MaxLive == 2

\* largest index of a disk operation inside one handler at which an I/O
\* error or a process kill is injected
MaxIo == 14

\* number of threads that run transactions
NumThreads == 2

\* number of transactions that create and update COW entities
MaxCowTx == 4

\* ------------------------------------------------------------------------
\* Byte strings (run-length encoded)
\* ------------------------------------------------------------------------

Min(a, b) == IF a < b THEN a ELSE b

Max(a, b) == IF a > b THEN a ELSE b

RECURSIVE BLen(_)
BLen(b) == IF b = <<>> THEN 0 ELSE Head(b)[2] + BLen(Tail(b))

\* concatenation, keeping the encoding canonical
BCat(a, b) ==
    IF a = <<>> THEN b
    ELSE IF b = <<>> THEN a
    ELSE LET la == a[Len(a)]
             hb == Head(b)
         IN IF la[1] = hb[1]
            THEN SubSeq(a, 1, Len(a) - 1) \o <<<<la[1], la[2] + hb[2]>>>> \o Tail(b)
            ELSE a \o b

\* the first k bytes of b (all of b when it is shorter)
RECURSIVE BTake(_, _)
BTake(b, k) ==
    IF k <= 0 \/ b = <<>> THEN <<>>
    ELSE IF Head(b)[2] >= k THEN <<<<Head(b)[1], k>>>>
    ELSE <<Head(b)>> \o BTake(Tail(b), k - Head(b)[2])

\* b without its first k bytes
RECURSIVE BDrop(_, _)
BDrop(b, k) ==
    IF k <= 0 \/ b = <<>> THEN b
    ELSE IF Head(b)[2] > k THEN <<<<Head(b)[1], Head(b)[2] - k>>>> \o Tail(b)
    ELSE BDrop(Tail(b), k - Head(b)[2])

\* bytes [from, to) of b
BSlice(b, from, to) == BTake(BDrop(b, from), to - from)

\* vec![v; n]
Fill(v, n) == IF n = 0 THEN <<>> ELSE <<<<v, n>>>>


\* ------------------------------------------------------------------------
\* Alignment, spans and spaces
\* ------------------------------------------------------------------------

\* align_ceil without the case of x = 0: the smallest multiple of size that
\* is not below x
align_ceil_plain(x, size) == x + ((0 - x) % size)

\* utils.rs:30-35  x + (-(x) & (size - 1)); for a power-of-two size the mask
\* is the remainder modulo size
align_ceil(x, size) == IF x = 0 THEN size ELSE x + ((0 - x) % size)

\* utils.rs:40-45
align_ceil_u64(x, size) == IF x = 0 THEN size ELSE x + ((0 - x) % size)

\* utils.rs:50-52
align_ceil_chunk(x, size) == align_ceil(x, size) \div size

\* the empty txid (Txid::new_empty), the txid of "outside any transaction"
EmptyTxid == 0

\* absence of an entry in an entity map
NoSpace == [txid |-> EmptyTxid, spans |-> <<>>, len |-> 0]

\* Span::new(begin, end, offset)
Span(begin, end, offset) == [begin |-> begin, end |-> end, offset |-> offset]

\* Space::new(txid, spans) for the span list of a buffer of `size` bytes
Space(txid, spans, size) == [txid |-> txid, spans |-> spans, len |-> size]

\* Space::set_len
SpaceSetLen(space, len) == [space EXCEPT !.len = len]

\* Space::append: the spans of `other` follow those of `space`
SpaceAppend(space, other) ==
    [space EXCEPT !.spans = @ \o other.spans, !.len = @ + other.len]

\* block indices of a span list, in order
RECURSIVE SpanBlocks(_)
SpanBlocks(spans) ==
    IF spans = <<>> THEN <<>>
    ELSE [i \in 1..(Head(spans).end - Head(spans).begin) |-> Head(spans).begin + i - 1]
         \o SpanBlocks(Tail(spans))

\* LocId::new(txid, block index) of every block of a space, in order
SpaceLocs(space) ==
    LET bl == SpanBlocks(space.spans)
    IN [i \in 1..Len(bl) |-> <<space.txid, bl[i]>>]

\* ------------------------------------------------------------------------
\* Sector manager: the block store
\* ------------------------------------------------------------------------

\* SectorMgr::write(buf, space, offset): byte p of the space lives in block
\* p / BLK_SIZE of the space at p % BLK_SIZE
RECURSIVE SecWriteFrom(_, _, _, _, _)
SecWriteFrom(blk, buf, space, offset, j) ==
    LET len  == BLen(buf)
        locs == SpaceLocs(space)
        lo   == Max(offset, j * BLK_SIZE)
        hi   == Min(offset + len, (j + 1) * BLK_SIZE)
        loc  == locs[j + 1]
        old  == IF loc \in DOMAIN blk THEN blk[loc] ELSE <<>>
        new  == BCat(BTake(old, lo - j * BLK_SIZE),
                     BSlice(buf, lo - offset, hi - offset))
        blk2 == [l \in DOMAIN blk \cup {loc} |-> IF l = loc THEN new ELSE blk[l]]
    IN IF j * BLK_SIZE >= offset + len \/ j >= Len(locs) THEN blk
       ELSE SecWriteFrom(blk2, buf, space, offset, j + 1)

SecWrite(blk, buf, space, offset) ==
    IF BLen(buf) = 0 THEN blk
    ELSE SecWriteFrom(blk, buf, space, offset, offset \div BLK_SIZE)

\* SectorMgr::read(buf, space, offset) with a buffer of n bytes: the bytes
\* read, or ok = FALSE when a block is missing or too short
RECURSIVE SecReadFrom(_, _, _, _, _)
SecReadFrom(blk, space, pos, end, j) ==
    LET locs == SpaceLocs(space)
        lo   == Max(pos, j * BLK_SIZE)
        hi   == Min(end, (j + 1) * BLK_SIZE)
        loc  == locs[j + 1]
        rest == SecReadFrom(blk, space, pos, end, j + 1)
    IN IF j * BLK_SIZE >= end THEN [ok |-> TRUE, data |-> <<>>]
       ELSE IF j >= Len(locs) THEN [ok |-> FALSE, data |-> <<>>]
       ELSE IF loc \notin DOMAIN blk THEN [ok |-> FALSE, data |-> <<>>]
       ELSE IF BLen(blk[loc]) < hi - j * BLK_SIZE THEN [ok |-> FALSE, data |-> <<>>]
       ELSE [ok |-> rest.ok,
             data |-> BCat(BSlice(blk[loc], lo - j * BLK_SIZE, hi - j * BLK_SIZE),
                           rest.data)]

SecRead(blk, space, offset, n) ==
    LET end == Min(offset + n, space.len)
    IN IF offset >= end THEN [ok |-> TRUE, data |-> <<>>]
       ELSE SecReadFrom(blk, space, offset, end, offset \div BLK_SIZE)

\* SectorMgr::recycle(spaces): the blocks of the spaces are given back
RECURSIVE SpacesLocs(_)
SpacesLocs(spaces) ==
    IF spaces = <<>> THEN {}
    ELSE {SpaceLocs(Head(spaces))[i] : i \in 1..Len(SpaceLocs(Head(spaces)))}
         \cup SpacesLocs(Tail(spaces))

SecRecycle(blk, spaces) ==
    [l \in DOMAIN blk \ SpacesLocs(spaces) |-> blk[l]]

\* SectorMgr::cleanup(txid): every block written under txid is dropped
SecCleanup(blk, txid) ==
    [l \in {x \in DOMAIN blk : x[1] # txid} |-> blk[l]]

\* ------------------------------------------------------------------------
\* State
\* ------------------------------------------------------------------------

\* number of entity ids
NumEids == 2

\* the largest lower half and the largest upper half of a block index
MaxBlk == 1
MaxHi == 1

\* puts and dels on one database
MaxSqOps == 3

\* sessions side by side: their number, and the writes and dels of each
MaxIsoTx == 3
MaxIsoOps == 2

\* the largest block watermark of the allocator
MaxBlkWmark == 4

\* the small values the alignment functions are applied to
MaxAlignX == 17

Eids == 1..NumEids

Threads == 1..NumThreads

VARIABLES
    disk,   \* the base directory and the lock file: sessFiles, snapFiles,
            \* emapFiles, blocks, lockFile, dirs, walq
    fs,     \* the FileStorage instance of the running process
    other,  \* a second FileStorage instance that tries to take the volume
    tm,     \* the TxMgr of the running process: txid_wmark, txs, ents, walq,
            \* the current txid of each of its threads, and the COW entities
            \* its transactions hold
    last,   \* the last call and its result
    g,      \* history: what the callers were promised
    sq      \* the SqliteStorage instance and its database file

vars == <<disk, fs, other, tm, last, g, sq>>

\* Emap::new: no entity
EmptyEmap == [e \in Eids |-> NoSpace]

\* an empty function (no file, no block, no session)
None == [x \in {} |-> 0]

\* no thread
NoThread == 0

\* TxMgr::new (txmgr.rs:36-50); current is the thread-local txid of each
\* thread, EmptyTxid outside any transaction. blk_wmark is the block
\* watermark of the allocator; saver is the thread that holds the writer lock
\* of the TxMgr inside save_walq (NoThread most of the time), reserved the
\* value reserve(1) returned to it, saved whether it saved the WAL queue.
TmNew == [txid_wmark |-> 0, txs |-> {}, ents |-> None, walq |-> None,
          current |-> [t \in Threads |-> EmptyTxid], cows |-> None,
          blk_wmark |-> 0, saver |-> NoThread, reserved |-> 0, saved |-> FALSE]

\* FileStorage::new (file.rs:355-368); st is "down" while no instance exists,
\* "open" after init/open returned Ok, "failed" after open returned Err
FsNew == [st |-> "down", seq |-> 0, emap |-> EmptyEmap, sessions |-> None,
          snapshots |-> <<>>, lock_path |-> FALSE]

\* Session::new (file.rs:173-194) once status_started succeeded
SessionNew(seq, txid) ==
    [seq |-> seq, txid |-> txid, status |-> "started", wmark |-> 0,
     emap |-> EmptyEmap, deleted |-> {}, recycle |-> <<>>]

\* Snapshot::new (file.rs:43-62)
Snapshot(seq, txid, wmark, recycle) ==
    [seq |-> seq, txid |-> txid, wmark |-> wmark, recycle |-> recycle]

\* SessionHistItem::is_completed (file.rs:150-152)
is_completed(status) == status \in {"committed", "dispose"}

\* Session::is_committing (file.rs:207-209)
is_committing(status) == status \in {"prepare", "recycle"}

\* ------------------------------------------------------------------------
\* The machine a handler runs on: disk, instance, and the injected faults.
\* Disk operations are counted; operation number killAt is never executed
\* (the process is killed before it), the operations in failAt return an
\* I/O error and have no effect.
\* ------------------------------------------------------------------------

NoKill == 0 - 1

Machine(d, f, gh, failAt, killAt) ==
    [disk |-> d, fs |-> f, tm |-> tm, g |-> gh, halt |-> "run", err |-> "Ok", n |-> 0,
     failAt |-> failAt, killAt |-> killAt]

\* a disk operation with effect Eff
Io(m, Eff(_)) ==
    IF m.halt # "run" THEN m
    ELSE IF m.n = m.killAt THEN [m EXCEPT !.halt = "dead"]
    ELSE IF m.n \in m.failAt THEN [m EXCEPT !.halt = "err", !.err = "Io", !.n = @ + 1]
    ELSE [Eff(m) EXCEPT !.n = m.n + 1]

\* a disk operation that fails by itself when Bad (a file that is not there)
IoNeeds(m, Bad(_), Eff(_)) ==
    Io(m, LAMBDA x : IF Bad(x) THEN [x EXCEPT !.halt = "err", !.err = "Io"] ELSE Eff(x))

\* a step on memory only
Mem(m, Eff(_)) == IF m.halt # "run" THEN m ELSE Eff(m)

\* the statements that follow a call see what it left behind
Then(m, Rest(_)) == Rest(m)

\* return Err(e)
Fail(m, e) == IF m.halt # "run" THEN m ELSE [m EXCEPT !.halt = "err", !.err = e]

\* a failed assertion or unreachable!()
Panic(m) == IF m.halt # "run" THEN m ELSE [m EXCEPT !.halt = "panic", !.err = "Panic"]

\* unreachable!() that was reached
Unreachable(m) ==
    IF m.halt # "run" THEN m ELSE [m EXCEPT !.halt = "panic", !.err = "Unreachable"]

\* a Result that is dropped or kept aside: the code goes on
Continue(m) == IF m.halt = "err" THEN [m EXCEPT !.halt = "run", !.err = "Ok"] ELSE m

\* Err(err) after a recovery that succeeded; the recovery's own failure when
\* it failed
KeepErr(m, err) == IF m.halt # "run" THEN m ELSE [m EXCEPT !.halt = "err", !.err = err]

\* function f without key k
Without(f, k) == [x \in DOMAIN f \ {k} |-> f[x]]

\* function f with f[k] = v
With(f, k, v) == [x \in DOMAIN f \cup {k} |-> IF x = k THEN v ELSE f[x]]

\* ------------------------------------------------------------------------
\* Session files (file.rs:201-249, 299-325)
\* ------------------------------------------------------------------------

SessFile(txid, seq, status) == [txid |-> txid, seq |-> seq, status |-> status]

\* Session::status_started: create_new of <txid>-<seq>.started
status_started(m, txid, seq) ==
    IoNeeds(m, LAMBDA x : SessFile(txid, seq, "started") \in x.disk.sessFiles,
            LAMBDA x : [x EXCEPT !.disk.sessFiles = @ \cup {SessFile(txid, seq, "started")},
                                 !.g.started = @ \cup {txid}])

\* Session::path (file.rs:201-204) of the session of txid
SessionPath(m, txid) == SessFile(txid, m.fs.sessions[txid].seq, m.fs.sessions[txid].status)

\* the order of TxStatus on the commit path: the status that follows `from`
Follows(from, to) ==
    <<from, to>> \in {<<"started", "prepare">>, <<"prepare", "recycle">>,
                      <<"recycle", "committed">>, <<"committed", "dispose">>}

\* switch_to_status that leaves the file of the status before in place
switch_to_status_copy(m, txid, to_status) ==
    Mem(IoNeeds(m, LAMBDA x : SessionPath(x, txid) \notin x.disk.sessFiles,
                LAMBDA x : [x EXCEPT !.disk.sessFiles =
                               @ \cup {SessFile(txid, x.fs.sessions[txid].seq, to_status)}]),
        LAMBDA x : [x EXCEPT !.fs.sessions[txid].status = to_status])

\* Session::switch_to_status (file.rs:216-223): rename, then the status field;
\* skipped records a rename that does not go to the status that follows
switch_to_status(m, txid, to_status) ==
    Mem(IoNeeds(m, LAMBDA x : SessionPath(x, txid) \notin x.disk.sessFiles,
                LAMBDA x : [x EXCEPT !.disk.sessFiles =
                               (@ \ {SessionPath(x, txid)})
                                   \cup {SessFile(txid, x.fs.sessions[txid].seq, to_status)},
                                     !.g.skipped =
                                        IF Follows(x.fs.sessions[txid].status, to_status)
                                        THEN @ ELSE @ \cup {txid}]),
        LAMBDA x : [x EXCEPT !.fs.sessions[txid].status = to_status])

\* Session::dispose: the first file named <txid>-* is renamed to .dispose
dispose(m, txid) ==
    Io(m, LAMBDA x : [x EXCEPT
              !.disk.sessFiles =
                  {IF f.txid = txid THEN SessFile(f.txid, f.seq, "dispose") ELSE f : f \in @},
              !.g.skipped =
                  IF \A f \in x.disk.sessFiles : f.txid = txid => is_completed(f.status)
                  THEN @ ELSE @ \cup {txid}])

\* Session::cleanup: the file named <txid>-* is removed
SessionCleanup(m, txid) ==
    Io(m, LAMBDA x : [x EXCEPT !.disk.sessFiles = {f \in @ : f.txid # txid}])

\* Emap::cleanup: emap/<txid> is removed
EmapCleanup(m, txid) ==
    Io(m, LAMBDA x : [x EXCEPT !.disk.emapFiles = Without(@, txid)])

\* Snapshot::cleanup (file.rs:90-93): snapshot/<txid> is removed
SnapshotCleanup(m, txid) ==
    Io(m, LAMBDA x : [x EXCEPT !.disk.snapFiles = Without(@, txid)])

\* alloc that leaves the watermark where it was
alloc_no_advance(s, size) ==
    LET blk_cnt == align_ceil(size, BLK_SIZE) \div BLK_SIZE
    IN [session |-> s,
        space   |-> Space(s.txid, <<Span(s.wmark, s.wmark + blk_cnt, 0)>>, size)]

\* Session::alloc (file.rs:252-258)
alloc(s, size) ==
    LET blk_cnt == align_ceil(size, BLK_SIZE) \div BLK_SIZE
        begin   == s.wmark
        wmark   == s.wmark + blk_cnt
    IN [session |-> [s EXCEPT !.wmark = wmark],
        space   |-> Space(s.txid, <<Span(begin, wmark, 0)>>, size)]

\* Session::take_snapshot (file.rs:261-271)
take_snapshot(s) == Snapshot(s.seq, s.txid, s.wmark, s.recycle)

\* Session::load_history (file.rs:274-297): the items sorted by seq
RECURSIVE SortBySeq(_)
SortBySeq(files) ==
    IF files = {} THEN <<>>
    ELSE LET f == CHOOSE x \in files :
                     \A y \in files : x.seq < y.seq \/ (x.seq = y.seq /\ x.txid <= y.txid)
         IN <<f>> \o SortBySeq(files \ {f})

load_history(m) == SortBySeq(m.disk.sessFiles)

\* ------------------------------------------------------------------------
\* Entity map (emap.rs, modelled from spec section 4.2)
\* ------------------------------------------------------------------------

\* Emap::merge in memory: every overlay entry replaces the base entry, then
\* every deleted id is removed from the base
EmapMerged(base, overlay, deleted) ==
    [e \in Eids |-> IF e \in deleted THEN NoSpace
                    ELSE IF overlay[e] # NoSpace THEN overlay[e]
                    ELSE base[e]]

\* Emap::merge: the base map is merged in memory and written as emap/<txid>
EmapMerge(m, txid) ==
    Io(Mem(m, LAMBDA x : [x EXCEPT !.fs.emap =
                  EmapMerged(@, x.fs.sessions[txid].emap, x.fs.sessions[txid].deleted)]),
       LAMBDA x : [x EXCEPT !.disk.emapFiles = With(@, txid, x.fs.emap)])

\* Emap::load(txid): the base map is read from emap/<txid>
EmapLoad(m, txid) ==
    IoNeeds(m, LAMBDA x : txid \notin DOMAIN x.disk.emapFiles,
            LAMBDA x : [x EXCEPT !.fs.emap = x.disk.emapFiles[txid]])

\* ------------------------------------------------------------------------
\* FileStorage internals (file.rs:379-501)
\* ------------------------------------------------------------------------

\* lock_storage with the path of the lock file recorded before the check
lock_storage_path_first(m) ==
    IF m.halt # "run" THEN m
    ELSE IF m.disk.lockFile THEN Fail([m EXCEPT !.fs.lock_path = TRUE], "Opened")
    ELSE Mem(Io(m, LAMBDA x : [x EXCEPT !.disk.lockFile = TRUE]),
             LAMBDA x : [x EXCEPT !.fs.lock_path = TRUE])

\* FileStorage::lock_storage (file.rs:379-395)
lock_storage(m) ==
    IF m.halt # "run" THEN m
    ELSE IF m.disk.lockFile THEN Fail(m, "Opened")
    ELSE Mem(Io(m, LAMBDA x : [x EXCEPT !.disk.lockFile = TRUE]),
             LAMBDA x : [x EXCEPT !.fs.lock_path = TRUE])

\* one turn of the loop of FileStorage::recycle (file.rs:400-414): the oldest
\* snapshot is retired
Retire(m) ==
    LET retired == Head(m.fs.snapshots)
        m1 == dispose(m, retired.txid)
        m2 == Io(m1, LAMBDA x :
                     [x EXCEPT !.disk.blocks = SecRecycle(@, retired.recycle),
                               !.g.passed = IF retired.txid \in DOMAIN x.g.owed
                                               /\ x.g.owed[retired.txid] = retired.recycle
                                            THEN @ \cup {retired.txid} ELSE @])
        m3 == Io(m2, LAMBDA x :
                     [x EXCEPT !.disk.emapFiles = Without(@, retired.txid),
                               !.g.lost = IF retired.txid \in DOMAIN x.g.owed
                                             /\ retired.txid \notin x.g.passed
                                          THEN @ \cup {retired.txid} ELSE @])
        m4 == SnapshotCleanup(m3, retired.txid)
        m5 == SessionCleanup(m4, retired.txid)
    IN Mem(m5, LAMBDA x : [x EXCEPT !.fs.snapshots = Tail(@)])

\* FileStorage::recycle (file.rs:398-417)
RECURSIVE recycle(_)
recycle(m) ==
    IF m.halt # "run" \/ Len(m.fs.snapshots) <= MAX_SNAPSHOT_CNT THEN m
    ELSE recycle(Retire(m))

\* do_cleanup that drops the blocks only
do_cleanup_blocks_only(m, txid) ==
    Io(m, LAMBDA x : [x EXCEPT !.disk.blocks = SecCleanup(@, txid)])

\* do_cleanup (file.rs:423-428)
do_cleanup(m, txid) ==
    LET m1 == Io(m, LAMBDA x : [x EXCEPT !.disk.blocks = SecCleanup(@, txid)])
        m2 == EmapCleanup(m1, txid)
    IN SnapshotCleanup(m2, txid)

\* cleanup that leaves the snapshot of the session in the deque
cleanup_keeps_snapshot(m, txid, status) ==
    LET m1 == CASE status = "started" ->
                       Io(m, LAMBDA x : [x EXCEPT !.disk.blocks = SecCleanup(@, txid)])
                [] status = "prepare" -> do_cleanup(m, txid)
                [] status = "recycle" -> recycle(do_cleanup(m, txid))
                [] OTHER              -> Panic(m)
        m3 == SessionCleanup(m1, txid)
    IN Mem(m3, LAMBDA x : [x EXCEPT !.fs.sessions = Without(@, txid)])

\* FileStorage::cleanup (file.rs:420-451)
cleanup(m, txid, status) ==
    LET m1 == CASE status = "started" ->
                       Io(m, LAMBDA x : [x EXCEPT !.disk.blocks = SecCleanup(@, txid)])
                [] status = "prepare" -> do_cleanup(m, txid)
                [] status = "recycle" -> recycle(do_cleanup(m, txid))
                [] OTHER              -> Unreachable(m)
        m2 == Mem(m1, LAMBDA x :
                      IF x.fs.snapshots # <<>>
                         /\ x.fs.snapshots[Len(x.fs.snapshots)].txid = txid
                      THEN [x EXCEPT !.fs.snapshots = SubSeq(@, 1, Len(@) - 1)]
                      ELSE x)
        m3 == SessionCleanup(m2, txid)
    IN Mem(m3, LAMBDA x : [x EXCEPT !.fs.sessions = Without(@, txid)])

\* commit that renames the session to committed before the emap and the
\* snapshot are written
commit_rename_first(m, txid) ==
    IF txid \notin DOMAIN m.fs.sessions THEN Fail(m, "NoTrans")
    ELSE
    LET m1 == switch_to_status(m, txid, "committed")
        m2 == EmapMerge(m1, txid)
        sn == take_snapshot(m.fs.sessions[txid])
        m3 == Io(m2, LAMBDA x : [x EXCEPT !.disk.snapFiles = With(@, txid, sn),
                                          !.g.owed = With(@, txid, sn.recycle)])
        m4 == Mem(m3, LAMBDA x : [x EXCEPT !.fs.snapshots = Append(@, sn)])
        m6 == recycle(m4)
    IN Mem(m6, LAMBDA x : [x EXCEPT !.fs.sessions = Without(@, txid)])

\* FileStorage::commit (file.rs:453-481)
commit(m, txid) ==
    IF txid \notin DOMAIN m.fs.sessions THEN Fail(m, "NoTrans")
    ELSE
    LET m1 == switch_to_status(m, txid, "prepare")
        m2 == EmapMerge(m1, txid)
        sn == take_snapshot(m.fs.sessions[txid])
        m3 == Io(m2, LAMBDA x : [x EXCEPT !.disk.snapFiles = With(@, txid, sn),
                                          !.g.owed = With(@, txid, sn.recycle)])
        m4 == Mem(m3, LAMBDA x : [x EXCEPT !.fs.snapshots = Append(@, sn)])
        m5 == switch_to_status(m4, txid, "recycle")
        m6 == recycle(m5)
        m7 == switch_to_status(m6, txid, "committed")
    IN Mem(m7, LAMBDA x : [x EXCEPT !.fs.sessions = Without(@, txid)])

\* FileStorage::rollback (file.rs:483-501)
rollback(m, txid) ==
    IF txid \notin DOMAIN m.fs.sessions THEN Fail(m, "NoTrans")
    ELSE Then(cleanup(m, txid, m.fs.sessions[txid].status),
              LAMBDA m1 :
                  IF m1.halt # "run" THEN m1
                  ELSE IF m1.fs.snapshots # <<>>
                       THEN EmapLoad(m1, m1.fs.snapshots[Len(m1.fs.snapshots)].txid)
                       ELSE [m1 EXCEPT !.fs.emap = EmptyEmap])

\* ------------------------------------------------------------------------
\* Storage for FileStorage (file.rs:504-809)
\* ------------------------------------------------------------------------

\* FileStorage::init (file.rs:509-536): the directories are created (creating
\* one that exists fails), then the storage is locked
init(m) ==
    lock_storage(IoNeeds(m, LAMBDA x : x.disk.dirs, LAMBDA x : [x EXCEPT !.disk.dirs = TRUE]))

\* the snapshots loaded by open (file.rs:591-608)
RECURSIVE LoadSnapshots(_, _)
LoadSnapshots(m, hist) ==
    IF m.halt # "run" \/ hist = <<>> THEN m
    ELSE LET item == Head(hist)
             m1 == IF item.status = "committed"
                   THEN IoNeeds(m, LAMBDA x : item.txid \notin DOMAIN x.disk.snapFiles,
                                LAMBDA x : [x EXCEPT !.fs.snapshots =
                                               Append(@, x.disk.snapFiles[item.txid])])
                   ELSE [m EXCEPT !.fs.snapshots =
                            Append(@, Snapshot(item.seq, item.txid, 0, <<>>))]
         IN LoadSnapshots(m1, Tail(hist))

\* open that does not check where the uncompleted session is
open_history_any_pos(m) ==
    LET hist == load_history(m)
        completed   == {i \in 1..Len(hist) : is_completed(hist[i].status)}
        uncompleted == {i \in 1..Len(hist) : ~is_completed(hist[i].status)}
        lastItem == hist[Len(hist)]
        m3   == LoadSnapshots([m EXCEPT !.fs.snapshots = <<>>], hist)
        m4   == Then(m3, LAMBDA x : IF is_completed(lastItem.status) THEN x
                                    ELSE cleanup(x, lastItem.txid, lastItem.status))
        m5   == Then(m4, LAMBDA x : IF x.halt # "run" THEN x
                                    ELSE EmapLoad(x, x.fs.snapshots[Len(x.fs.snapshots)].txid))
        last_comitted == hist[CHOOSE i \in completed : \A j \in completed : j <= i]
    IN IF m.halt # "run" THEN m
       ELSE IF hist = <<>> THEN m
       ELSE IF completed = {} \/ Cardinality(uncompleted) > 1
            THEN Fail(m, "Corrupted")
       ELSE Mem(m5, LAMBDA x : [x EXCEPT !.fs.seq = last_comitted.seq + 1])

\* FileStorage::open once the storage is locked (file.rs:563-637)
open_history(m) ==
    LET hist == load_history(m)
        completed   == {i \in 1..Len(hist) : is_completed(hist[i].status)}
        uncompleted == {i \in 1..Len(hist) : ~is_completed(hist[i].status)}
        uncompleted_pos ==
            IF uncompleted = {} THEN Len(hist)
            ELSE CHOOSE i \in uncompleted : \A j \in uncompleted : i <= j
        lastItem == hist[Len(hist)]
        m3   == LoadSnapshots([m EXCEPT !.fs.snapshots = <<>>], hist)
        m4   == Then(m3, LAMBDA x : IF is_completed(lastItem.status) THEN x
                                    ELSE cleanup(x, lastItem.txid, lastItem.status))
        m5   == Then(m4, LAMBDA x : IF x.halt # "run" THEN x
                                    ELSE EmapLoad(x, x.fs.snapshots[Len(x.fs.snapshots)].txid))
        last_comitted == hist[CHOOSE i \in completed : \A j \in completed : j <= i]
    IN IF m.halt # "run" THEN m
       ELSE IF hist = <<>> THEN m
       ELSE IF completed = {} \/ Cardinality(uncompleted) > 1
               \/ uncompleted_pos # Len(hist)
            THEN Fail(m, "Corrupted")
       ELSE Mem(m5, LAMBDA x : [x EXCEPT !.fs.seq = last_comitted.seq + 1])

\* FileStorage::open (file.rs:555-638)
open(m) == open_history(lock_storage(m))

\* the txid returned by a successful open (file.rs:569-571, 637)
OpenedTxid(d) ==
    LET hist == SortBySeq(d.sessFiles)
        completed == {i \in 1..Len(hist) : is_completed(hist[i].status)}
    IN IF completed = {} THEN EmptyTxid
       ELSE hist[CHOOSE i \in completed : \A j \in completed : j <= i].txid

\* FileStorage::read (file.rs:640-661) with a buffer of n bytes
read(d, f, id, offset, n, txid) ==
    IF txid # EmptyTxid /\ txid \notin DOMAIN f.sessions
    THEN [res |-> "NoTrans", data |-> <<>>]
    ELSE LET space == IF txid # EmptyTxid /\ f.sessions[txid].emap[id] # NoSpace
                      THEN f.sessions[txid].emap[id]
                      ELSE f.emap[id]
             r == SecRead(d.blocks, space, offset, n)
         IN IF space = NoSpace THEN [res |-> "NoEntity", data |-> <<>>]
            ELSE [res |-> IF r.ok THEN "Ok" ELSE "Io", data |-> r.data]

\* the space an append leaves the entity with (file.rs:689-711)
AppendSpace(s, curr_space, offset, buf_len) ==
    LET end_offset == offset + buf_len
        ubound     == align_ceil(offset, BLK_SIZE)
        align_len  == ubound - offset
        extra      == alloc(s, buf_len - align_len)
    IN IF end_offset <= ubound
       THEN [session |-> s, space |-> SpaceSetLen(curr_space, end_offset)]
       ELSE [session |-> extra.session,
             space   |-> SpaceAppend(SpaceSetLen(curr_space, curr_space.len + align_len),
                                     extra.space)]

\* the append path without the assertion on the txid of the space
AppendAsserts_offset_only(offset, txid, curr_space) == offset = curr_space.len

\* the append path without the assertion on the offset
AppendAsserts_txid_only(offset, txid, curr_space) == txid = curr_space.txid

\* the assertions of the append path (file.rs:687-688)
AppendAsserts(offset, txid, curr_space) ==
    offset = curr_space.len /\ txid = curr_space.txid

\* FileStorage::write (file.rs:663-728)
write(m, id, offset, buf, txid) ==
    IF txid \notin DOMAIN m.fs.sessions THEN Fail(m, "NoTrans")
    ELSE
    LET s       == m.fs.sessions[txid]
        buf_len == BLen(buf)
        curr    == IF s.emap[id] # NoSpace THEN s.emap[id] ELSE m.fs.emap[id]
        a       == IF curr # NoSpace
                   THEN IF offset = 0
                        THEN alloc([s EXCEPT !.recycle = Append(@, curr)], buf_len)
                        ELSE AppendSpace(s, curr, offset, buf_len)
                   ELSE alloc(s, buf_len)
        m2      == Io([m EXCEPT !.fs.sessions[txid] = a.session],
                      LAMBDA x : [x EXCEPT !.disk.blocks = SecWrite(@, buf, a.space, offset)])
    IN IF curr # NoSpace /\ offset # 0 /\ ~AppendAsserts(offset, txid, curr) THEN Panic(m)
       ELSE IF curr = NoSpace /\ offset # 0 THEN Panic(m)
       ELSE Mem(m2, LAMBDA x : [x EXCEPT !.fs.sessions[txid].emap[id] = a.space])

\* what FileStorage::del returns (file.rs:733-751): Some(id) or None
DelReturns(f, id, txid) ==
    LET s == f.sessions[txid]
    IN IF id \in s.deleted THEN "None"
       ELSE IF s.emap[id] # NoSpace \/ f.emap[id] # NoSpace THEN "Some"
       ELSE "None"

\* del that takes a committed entity out of the base emap at once
del_in_base(m, id, txid) ==
    IF txid \notin DOMAIN m.fs.sessions THEN Fail(m, "NoTrans")
    ELSE
    LET s == m.fs.sessions[txid]
    IN IF id \in s.deleted THEN m
       ELSE IF s.emap[id] # NoSpace
            THEN [m EXCEPT !.fs.sessions[txid] =
                     [s EXCEPT !.emap[id] = NoSpace,
                               !.deleted = @ \cup {id},
                               !.recycle = Append(@, s.emap[id])]]
       ELSE IF m.fs.emap[id] # NoSpace
            THEN [m EXCEPT !.fs.emap[id] = NoSpace,
                           !.fs.sessions[txid] =
                     [s EXCEPT !.deleted = @ \cup {id},
                               !.recycle = Append(@, m.fs.emap[id])]]
       ELSE m

\* FileStorage::del (file.rs:730-752)
del(m, id, txid) ==
    IF txid \notin DOMAIN m.fs.sessions THEN Fail(m, "NoTrans")
    ELSE
    LET s == m.fs.sessions[txid]
    IN IF id \in s.deleted THEN m
       ELSE IF s.emap[id] # NoSpace
            THEN [m EXCEPT !.fs.sessions[txid] =
                     [s EXCEPT !.emap[id] = NoSpace,
                               !.deleted = @ \cup {id},
                               !.recycle = Append(@, s.emap[id])]]
       ELSE IF m.fs.emap[id] # NoSpace
            THEN [m EXCEPT !.fs.sessions[txid] =
                     [s EXCEPT !.deleted = @ \cup {id},
                               !.recycle = Append(@, m.fs.emap[id])]]
       ELSE m

\* FileStorage::begin_trans (file.rs:754-766)
begin_trans(m, txid) ==
    IF txid \in DOMAIN m.fs.sessions THEN Fail(m, "InTrans")
    ELSE Mem(status_started(m, txid, m.fs.seq),
             LAMBDA x : [x EXCEPT !.fs.seq = @ + 1,
                                  !.fs.sessions = With(@, txid, SessionNew(m.fs.seq, txid))])

\* FileStorage::abort_trans (file.rs:768-778)
abort_trans(m, txid) ==
    IF txid \notin DOMAIN m.fs.sessions THEN Fail(m, "NoTrans")
    ELSE IF is_committing(m.fs.sessions[txid].status) THEN Panic(m)
    ELSE cleanup(m, txid, m.fs.sessions[txid].status)

\* FileStorage::commit_trans (file.rs:780-793)
commit_trans(m, txid) ==
    IF \E t \in DOMAIN m.fs.sessions : is_committing(m.fs.sessions[t].status)
    THEN Fail(m, "Uncompleted")
    ELSE Then(commit(m, txid),
              LAMBDA m1 : IF m1.halt # "err" THEN m1
                          ELSE KeepErr(rollback(Continue(m1), txid), m1.err))

\* Drop for FileStorage (file.rs:796-809)
drop(m) ==
    IF m.fs.lock_path THEN [m EXCEPT !.disk.lockFile = FALSE] ELSE m

\* ------------------------------------------------------------------------
\* Transaction manager (txmgr.rs). The WAL queue (wal.rs) and Trans
\* (trans.rs) are modelled from spec sections 4.6 and 4.7: a WAL record per
\* txid that is "begin", "end" or "abort"; Trans::begin_trans, commit and
\* abort drive begin_trans, commit_trans and abort_trans of the backend.
\* ------------------------------------------------------------------------

\* Result::and / and_then: the first error of a and of b, which ran after a
FirstErr(a, b) ==
    IF a.halt = "err" /\ b.halt \in {"run", "err"}
    THEN [b EXCEPT !.halt = "err", !.err = a.err]
    ELSE b

\* save_walq that does not save the txid watermark
save_walq_recs_only(m) ==
    Io(m, LAMBDA x : [x EXCEPT !.disk.walq.recs = x.tm.walq])

\* TxMgr::save_walq (txmgr.rs:52-71)
save_walq(m) ==
    Io(m, LAMBDA x : [x EXCEPT !.disk.walq =
                         [txid_wmark |-> x.tm.txid_wmark, recs |-> x.tm.walq]])

\* WalQueue::hot_redo_abort, cold_redo_abort: the aborts that began and did
\* not end are run again on the backend, then ended
RECURSIVE redo_abort(_, _)
redo_abort(m, txids) ==
    IF m.halt # "run" \/ txids = {} THEN m
    ELSE LET txid == CHOOSE t \in txids : \A u \in txids : t <= u
         IN redo_abort(Mem(abort_trans(m, txid),
                           LAMBDA x : [x EXCEPT !.tm.walq = Without(@, txid),
                                                !.g.abortFailed = @ \ {txid}]),
                       txids \ {txid})

Aborting(walq) == {t \in DOMAIN walq : walq[t] = "abort"}

\* Txid::reset_current: the thread is in no transaction
reset_current(m, thread) == [m EXCEPT !.tm.current[thread] = EmptyTxid]

\* TxMgr::remove_trans (txmgr.rs:178-181)
remove_trans(m, txid) ==
    [m EXCEPT !.tm.txs = @ \ {txid},
              !.tm.ents = [e \in {d \in DOMAIN m.tm.ents : m.tm.ents[d] # txid} |->
                              m.tm.ents[e]]]

\* add_to_trans with insert() in place of entry().or_insert(): the entity
\* goes to the transaction that asks last
add_to_trans_overwrite(m, id, txid) ==
    IF txid \notin m.tm.txs
    THEN Fail([m EXCEPT !.tm.ents = With(@, id, txid)], "NoTrans")
    ELSE [m EXCEPT !.tm.ents = With(@, id, txid)]

\* TxMgr::add_to_trans (txmgr.rs:156-175): entry().or_insert() enrolls the
\* entity before the transaction is looked up
add_to_trans(m, id, txid) ==
    LET cur_txid == IF id \in DOMAIN m.tm.ents THEN m.tm.ents[id] ELSE txid
    IN IF cur_txid # txid THEN Fail(m, "InTrans")
       ELSE IF txid \notin m.tm.txs
            THEN Fail([m EXCEPT !.tm.ents = With(@, id, txid)], "NoTrans")
            ELSE [m EXCEPT !.tm.ents = With(@, id, txid)]

\* COW layer (cow.rs, modelled from spec section 4.5): an entity has two slots
\* and an arm that names the current one; action is what the transaction that
\* holds the entity did to it ("-" when none holds it)
NoVal == 0

OtherArm(arm) == IF arm = "Right" THEN "Left" ELSE "Right"

\* IntoCow::into_cow: the value goes to the Right slot
CowNew(val) ==
    [arm |-> "Right", slot |-> [Left |-> NoVal, Right |-> val], action |-> "New"]

\* the value a reader of the entity gets
CowRead(cow) == cow.slot[cow.arm]

\* the entities a transaction holds
Cohort(m, txid) == {id \in DOMAIN m.tm.cows : id \in DOMAIN m.tm.ents /\ m.tm.ents[id] = txid}

\* into_cow in transaction txid (tests::trans_oper, txmgr.rs:366-372)
into_cow(m, id, val, txid) ==
    Mem(add_to_trans(m, id, txid),
        LAMBDA x : [x EXCEPT !.tm.cows = With(@, id, CowNew(val))])

\* make_mut in transaction txid, then the assignment of val (txmgr.rs:376-380):
\* the clone goes to the slot that is not current; an entity the transaction
\* created is changed in place
make_mut(m, id, val, txid) ==
    Mem(add_to_trans(m, id, txid),
        LAMBDA x : [x EXCEPT !.tm.cows[id] =
                       IF @.action = "New" THEN [@ EXCEPT !.slot[@.arm] = val]
                       ELSE [@ EXCEPT !.slot[OtherArm(@.arm)] = val, !.action = "Update"]])

\* complete_commit that leaves the arm of every entity as it was
complete_commit_no_flip(m, txid) ==
    [m EXCEPT !.tm.cows =
        [id \in DOMAIN @ |-> IF id \in Cohort(m, txid) THEN [@[id] EXCEPT !.action = "-"]
                             ELSE @[id]]]

\* Trans::complete_commit (txmgr.rs:195): the entities the transaction updated
\* flip their arm
complete_commit(m, txid) ==
    [m EXCEPT !.tm.cows =
        [id \in DOMAIN @ |->
            IF id \notin Cohort(m, txid) THEN @[id]
            ELSE IF @[id].action = "Update"
                 THEN [@[id] EXCEPT !.arm = OtherArm(@), !.action = "-"]
                 ELSE [@[id] EXCEPT !.action = "-"]]]

\* Trans::abort on the entities: what the transaction created is gone, the
\* slot it wrote of what it updated is discarded
cow_abort(m, txid) ==
    [m EXCEPT !.tm.cows =
        [id \in {i \in DOMAIN @ : ~(i \in Cohort(m, txid) /\ @[i].action = "New")} |->
            IF id \in Cohort(m, txid)
            THEN [@[id] EXCEPT !.slot[OtherArm(@[id].arm)] = NoVal, !.action = "-"]
            ELSE @[id]]]

\* WalQueue::end_abort: the record of the abort is dropped from the queue
end_abort(m, txid) == [m EXCEPT !.tm.walq = Without(@, txid)]

\* abort_trans that gives up at the first step that fails
TxMgrAbortTrans_try(m, txid, thread) ==
    LET m1 == Mem(m, LAMBDA x : [x EXCEPT !.tm.walq = With(@, txid, "abort")])
        m3 == Mem(abort_trans(m1, txid), LAMBDA x : end_abort(x, txid))
    IN Continue(Mem(save_walq(m3),
                    LAMBDA x : reset_current(remove_trans(x, txid), thread)))

\* TxMgr::abort_trans (txmgr.rs:218-240): the three steps are evaluated one
\* after the other whatever the one before returned
TxMgrAbortTrans(m, txid, thread) ==
    LET m1 == Mem(m, LAMBDA x : cow_abort([x EXCEPT !.tm.walq = With(@, txid, "abort")],
                                          txid))
        m2 == Then(abort_trans(m1, txid),
                   LAMBDA x : IF x.halt = "err"
                              THEN [x EXCEPT !.g.abortFailed = @ \cup {txid}] ELSE x)
        m3 == Mem(Continue(m2), LAMBDA x : end_abort(x, txid))
        m4 == Continue(save_walq(m3))
    IN Mem(m4, LAMBDA x : reset_current(remove_trans(x, txid), thread))

\* TxHandle::abort (txmgr.rs:296-302): the error of the closure is returned
TxHandleAbort(m, err, txid, thread) ==
    Mem(TxMgrAbortTrans(m, txid, thread),
        LAMBDA x : [x EXCEPT !.halt = "err", !.err = err])

\* TxMgr::commit_trans (txmgr.rs:184-215): save_walq is an argument of and(),
\* evaluated whatever the commit returned
TxMgrCommitTrans(m, txid, thread) ==
    LET m1 == commit_trans(m, txid)
        m2 == Mem(m1, LAMBDA x : [x EXCEPT !.tm.walq = With(@, txid, "end")])
        m4 == Then(m2, LAMBDA x : FirstErr(x, save_walq(Continue(x))))
    IN Then(m4, LAMBDA x :
                IF x.halt = "run"
                THEN reset_current(remove_trans(complete_commit(x, txid), txid), thread)
                ELSE IF x.halt # "err" THEN x
                ELSE KeepErr(TxMgrAbortTrans(Continue(x), txid, thread), x.err))

\* begin_trans without the check of the current txid of the thread
TxMgrBeginTrans_nested(m, thread) ==
    LET redo == Aborting(m.tm.walq)
        m2   == IF redo # {} THEN save_walq(redo_abort(m, redo)) ELSE m
        txid == m.tm.txid_wmark + 1
        m3   == Mem(m2, LAMBDA x : [x EXCEPT !.tm.txid_wmark = txid,
                                             !.tm.current[thread] = txid,
                                             !.tm.walq = With(@, txid, "begin")])
        m4   == save_walq(m3)
    IN Then(m4, LAMBDA x :
                IF x.halt = "err" THEN reset_current(end_abort(x, txid), thread)
                ELSE Then(begin_trans(Mem(x, LAMBDA y : [y EXCEPT !.tm.txs = @ \cup {txid}]),
                                      txid),
                          LAMBDA z : IF z.halt # "err" THEN z
                                     ELSE KeepErr(TxMgrAbortTrans(Continue(z), txid, thread),
                                                  z.err)))

\* begin_trans with the transaction created and started before its begin
\* record is saved
TxMgrBeginTrans_save_last(m, thread) ==
    IF m.tm.current[thread] # EmptyTxid THEN Fail(m, "InTrans")
    ELSE
    LET txid == m.tm.txid_wmark + 1
        m3   == Mem(m, LAMBDA x : [x EXCEPT !.tm.txid_wmark = txid,
                                            !.tm.current[thread] = txid,
                                            !.tm.walq = With(@, txid, "begin"),
                                            !.tm.txs = @ \cup {txid}])
    IN save_walq(begin_trans(m3, txid))

\* TxMgr::begin_trans (txmgr.rs:105-153)
TxMgrBeginTrans(m, thread) ==
    IF m.tm.current[thread] # EmptyTxid THEN Fail(m, "InTrans")
    ELSE
    LET redo == Aborting(m.tm.walq)
        m2   == IF redo # {} THEN save_walq(redo_abort(m, redo)) ELSE m
        txid == m.tm.txid_wmark + 1
        m3   == Mem(m2, LAMBDA x : [x EXCEPT !.tm.txid_wmark = txid,
                                             !.tm.current[thread] = txid,
                                             !.tm.walq = With(@, txid, "begin")])
        m4   == save_walq(m3)
    IN Then(m4, LAMBDA x :
                IF x.halt = "err" THEN reset_current(end_abort(x, txid), thread)
                ELSE Then(begin_trans(Mem(x, LAMBDA y : [y EXCEPT !.tm.txs = @ \cup {txid}]),
                                      txid),
                          LAMBDA z : IF z.halt # "err" THEN z
                                     ELSE KeepErr(TxMgrAbortTrans(Continue(z), txid, thread),
                                                  z.err)))

\* TxMgr::open (txmgr.rs:74-102)
TxMgrOpen(m) ==
    LET m1   == Mem(m, LAMBDA x : [x EXCEPT !.tm = [TmNew EXCEPT
                                            !.txid_wmark = x.disk.walq.txid_wmark,
                                            !.walq = x.disk.walq.recs]])
        redo == Aborting(m.disk.walq.recs)
    IN IF redo # {} THEN save_walq(redo_abort(m1, redo)) ELSE m1

\* ------------------------------------------------------------------------
\* History: the logical state the callers were promised
\* ------------------------------------------------------------------------

\* the entity does not exist
Absent == <<<<0 - 1, 0>>>>

\* the transaction has not touched the entity
Untouched == <<<<0 - 2, 0>>>>

\* the entity cannot be read
Unreadable == <<<<0 - 3, 0>>>>

NoView == [e \in Eids |-> Untouched]

\* the content of every entity as read(id, 0, .., empty txid) returns it
ReadState(blk, emap) ==
    [e \in Eids |->
        IF emap[e] = NoSpace THEN Absent
        ELSE LET r == SecRead(blk, emap[e], 0, emap[e].len)
             IN IF r.ok THEN r.data ELSE Unreadable]

\* the committed state after a transaction with overlay `view` commits
Applied(committed, view) ==
    [e \in Eids |-> IF view[e] = Untouched THEN committed[e] ELSE view[e]]

GInit ==
    [nextTx |-> 1, ops |-> None, calls |-> 0, view |-> None,
     committed |-> [e \in Eids |-> Absent],
     history |-> {[e \in Eids |-> Absent]},
     owed |-> None, passed |-> {}, lost |-> {}, mustAbort |-> {}, panicked |-> {},
     app |-> None, appended |-> {}, plain |-> {}, deleted |-> {}, refused |-> {},
     started |-> {}, before |-> {}, abortFailed |-> {}, order |-> <<>>,
     cows |-> None, cowPend |-> None, skipped |-> {}]

\* the sessions of a process that went away are abandoned
Abandon(gh) ==
    [gh EXCEPT !.ops = None, !.view = None, !.mustAbort = {}, !.panicked = {},
               !.app = None, !.cows = None, !.cowPend = None]

\* a transaction is over for its caller
Forget(gh, txid) ==
    [gh EXCEPT !.ops = Without(@, txid), !.view = Without(@, txid),
               !.app = Without(@, txid), !.mustAbort = @ \ {txid},
               !.cowPend = [id \in {i \in DOMAIN @ : @[i].txid # txid} |-> @[id]]]

\* the record of a call: the operation, its txid, the error it returned ("Ok"
\* when none), the entity it was about, a detail of the call or of what it
\* returned, whether it left the disk and the instance as they were, and, for
\* an open, whether it follows the drop of the holder
Result(op, txid, res) ==
    [op |-> op, txid |-> txid, res |-> res, id |-> 0, ret |-> "-", same |-> TRUE,
     after |-> "-"]

\* fault plans: no fault, a kill before disk operation k, an I/O error at disk
\* operation i
NoFault == [failAt |-> {}, killAt |-> NoKill]

KillPlans == {[failAt |-> {}, killAt |-> k] : k \in 0..MaxIo}

FailPlans == {[failAt |-> {i}, killAt |-> NoKill] : i \in 0..MaxIo}

\* the fault of the plan was injected: the handler got as far as the disk
\* operation the plan names
Strikes(plan, m) ==
    /\ plan.killAt # NoKill => m.halt = "dead"
    /\ \A i \in plan.failAt : i < m.n \/ m.halt = "dead"

\* the state a handler leaves behind: the disk, the instance (gone when the
\* process was killed), the history
Leave(m, op, txid, gh, id, ret) ==
    /\ disk' = m.disk
    /\ IF m.halt = "dead"
       THEN /\ fs' = FsNew
            /\ g' = Abandon(m.g)
            /\ tm' = TmNew
            /\ last' = Result(op, txid, "Killed")
       ELSE /\ fs' = m.fs
            /\ tm' = m.tm
            /\ g' = gh
            /\ last' = [Result(op, txid, m.err) EXCEPT
                           !.id = id, !.ret = ret,
                           !.same = (m.fs = fs /\ m.disk = disk)]
    /\ UNCHANGED <<other, sq>>

Start(plan) == Machine(disk, fs, g, plan.failAt, plan.killAt)

\* ------------------------------------------------------------------------
\* Actions
\* ------------------------------------------------------------------------

\* a process creates the volume: FileStorage::new, init
InitStorage ==
    /\ fs.st = "down"
    /\ ~disk.dirs
    /\ \E m \in {init(Start(NoFault))} :
          /\ disk' = m.disk
          /\ fs' = [m.fs EXCEPT !.st = IF m.halt = "run" THEN "open" ELSE "failed"]
          /\ last' = Result("init", EmptyTxid, m.err)
          /\ UNCHANGED <<other, tm, g, sq>>

\* the session file that is last by seq ("-" when there is none)
LastSession(d) ==
    LET hist == SortBySeq(d.sessFiles)
    IN IF hist = <<>> THEN SessFile(EmptyTxid, 0, "-") ELSE hist[Len(hist)]

\* whether the call before this one was the drop of the holder
AfterCall == IF last.op = "drop" /\ last.ret = "holder" THEN "holder_drop" ELSE "-"

\* a process opens the volume: FileStorage::new, open, and with the layer
\* "TxMgr" also TxMgr::open; it may be killed while open recovers
Open(plans, layer) ==
    /\ fs.st = "down"
    /\ disk.dirs
    /\ \E plan \in plans :
         \E m \in {IF layer = "TxMgr" THEN TxMgrOpen(open(Start(plan)))
                   ELSE open(Start(plan))} :
            /\ Strikes(plan, m)
            /\ disk' = m.disk
            /\ g' = IF layer = "TxMgr" /\ m.halt = "run"
                    THEN [m.g EXCEPT !.before = m.g.started] ELSE m.g
            /\ tm' = IF m.halt = "run" THEN m.tm ELSE TmNew
            /\ UNCHANGED <<other, sq>>
            /\ IF m.halt = "dead"
               THEN fs' = FsNew /\ last' = Result("open", EmptyTxid, "Killed")
               ELSE IF m.halt = "run"
               THEN /\ fs' = [m.fs EXCEPT !.st = "open"]
                    /\ last' = [Result("open", OpenedTxid(disk), "Ok") EXCEPT
                                   !.id = LastSession(disk).txid,
                                   !.ret = LastSession(disk).status,
                                   !.after = AfterCall]
               ELSE /\ fs' = [FsNew EXCEPT !.st = "failed", !.lock_path = m.fs.lock_path]
                    /\ last' = [Result("open", EmptyTxid, m.err) EXCEPT
                                   !.id = LastSession(disk).txid,
                                   !.ret = LastSession(disk).status,
                                   !.after = AfterCall]

\* the instance is dropped
Drop ==
    /\ fs.st # "down"
    /\ disk' = drop(Start(NoFault)).disk
    /\ fs' = FsNew
    /\ g' = Abandon(g)
    /\ tm' = TmNew
    /\ last' = [Result("drop", EmptyTxid, "Ok") EXCEPT
                   !.ret = IF fs.st = "open" THEN "holder" ELSE "failed"]
    /\ UNCHANGED <<other, sq>>

\* the process is killed between two calls: nothing is dropped
Kill ==
    /\ fs.st # "down"
    /\ fs' = FsNew
    /\ g' = Abandon(g)
    /\ tm' = TmNew
    /\ last' = Result("kill", EmptyTxid, "Killed")
    /\ UNCHANGED <<disk, other, sq>>

\* the lock file a killed process left behind is removed (force, spec
\* section 5)
ForceUnlock ==
    /\ fs.st = "down"
    /\ disk.lockFile
    /\ ~other.lock_path
    /\ disk' = [disk EXCEPT !.lockFile = FALSE]
    /\ last' = Result("unlock", EmptyTxid, "Ok")
    /\ UNCHANGED <<fs, other, tm, g, sq>>

\* begin_trans(txid) with the next txid
BeginTrans(maxTx, maxLive, plans) ==
    /\ fs.st = "open"
    /\ g.nextTx <= maxTx
    /\ Cardinality(DOMAIN fs.sessions) < maxLive
    /\ \E plan \in plans :
         LET txid == g.nextTx
         IN \E m \in {begin_trans(Start(plan), txid)} :
              Leave(m, "begin", txid,
                  IF m.halt = "run"
                  THEN [m.g EXCEPT !.nextTx = @ + 1,
                                   !.ops = With(@, txid, 0), !.view = With(@, txid, NoView),
                                   !.app = With(@, txid, {})]
                  ELSE [m.g EXCEPT !.nextTx = @ + 1], 0, "-")

\* no bound on the write/del calls of a behaviour
NoBudget == 0 - 1

\* sessions a caller may still write to, delete from or commit
Usable(txid) ==
    /\ txid \in DOMAIN fs.sessions
    /\ txid \in DOMAIN g.ops
    /\ txid \notin g.mustAbort \cup g.panicked

\* write(id, offset, buf, txid) with offset 0 ("write"), the current length
\* of id ("append"), or one byte beyond it ("beyond")
Write(ids, bufs, plans, modes, maxOps, maxRun) ==
    /\ fs.st = "open"
    /\ \E txid \in DOMAIN fs.sessions, id \in ids, buf \in bufs, plan \in plans :
         LET s    == fs.sessions[txid]
             curr == IF s.emap[id] # NoSpace THEN s.emap[id] ELSE fs.emap[id]
         IN \E offset \in {0 : x \in modes \cap {"write"}}
                           \cup {curr.len : x \in modes \cap {"append"}}
                           \cup {curr.len + 1 : x \in modes \cap {"beyond"}} :
              LET old == IF g.view[txid][id] = Untouched THEN g.committed[id]
                         ELSE g.view[txid][id]
                  new == IF offset = 0 THEN buf ELSE BCat(old, buf)
                  g1  == [g EXCEPT !.ops[txid] = @ + 1,
                                   !.calls = IF maxRun = NoBudget THEN @ ELSE @ + 1]
              IN \E m \in {write(Start(plan), id, offset, buf, txid)} :
                 /\ Usable(txid)
                 /\ g.ops[txid] < maxOps
                 /\ maxRun = NoBudget \/ g.calls < maxRun
                 /\ Leave(m, "write", txid,
                          CASE m.halt = "run"   ->
                                  [g1 EXCEPT !.view[txid][id] = new,
                                             !.app[txid] = IF offset = 0 THEN @ \ {id}
                                                           ELSE @ \cup {id}]
                            [] m.halt = "panic" -> [g1 EXCEPT !.panicked = @ \cup {txid}]
                            [] OTHER            -> [g1 EXCEPT !.mustAbort = @ \cup {txid}],
                          id,
                          IF offset = 0 THEN "write0"
                          ELSE IF offset # curr.len THEN "beyond"
                          ELSE IF s.emap[id] = NoSpace THEN "append_committed"
                          ELSE "append_own")

\* del(id, txid)
Del(ids, maxOps, maxRun) ==
    /\ fs.st = "open"
    /\ \E txid \in DOMAIN fs.sessions, id \in ids :
         LET g1 == [g EXCEPT !.ops[txid] = @ + 1,
                        !.calls = IF maxRun = NoBudget THEN @ ELSE @ + 1]
         IN \E m \in {del(Start(NoFault), id, txid)} :
            /\ Usable(txid)
            /\ g.ops[txid] < maxOps
            /\ maxRun = NoBudget \/ g.calls < maxRun
            /\ disk' = m.disk
            /\ fs' = m.fs
            /\ g' = IF DelReturns(fs, id, txid) = "Some"
                    THEN [g1 EXCEPT !.view[txid][id] = Absent, !.app[txid] = @ \ {id}]
                    ELSE g1
            /\ last' = [Result("del", txid, m.err) EXCEPT
                           !.id = id, !.ret = DelReturns(fs, id, txid),
                           !.same = (m.fs = fs /\ m.disk = disk)]
            /\ UNCHANGED <<other, tm, sq>>

\* the existing entities that the commit of txid deletes
Deleting(txid) == {e \in Eids : g.view[txid][e] = Absent /\ g.committed[e] # Absent}

\* commit_trans(txid)
CommitTrans(plans) ==
    /\ fs.st = "open"
    /\ \E txid \in DOMAIN fs.sessions, plan \in plans :
         LET committed == Applied(g.committed, g.view[txid])
         IN \E m \in {commit_trans(Start(plan), txid)} :
            /\ Usable(txid)
            /\ Strikes(plan, m)
            /\ Leave(m, "commit", txid,
                     IF m.halt = "run"
                     THEN [Forget(m.g, txid) EXCEPT
                              !.committed = committed, !.history = @ \cup {committed},
                              !.order = Append(@, txid),
                              !.appended = (@ \ {e \in Eids : g.view[txid][e] # Untouched})
                                           \cup g.app[txid],
                              !.plain = (@ \ {e \in Eids : g.view[txid][e] # Untouched})
                                        \cup {e \in Eids \ g.app[txid] :
                                                g.view[txid][e] \notin {Untouched, Absent}},
                              !.deleted = (@ \ {e \in Eids : g.view[txid][e] # Untouched})
                                          \cup Deleting(txid)]
                     ELSE IF txid \in DOMAIN m.fs.sessions
                     THEN [m.g EXCEPT !.mustAbort = @ \cup {txid}]
                     ELSE Forget(m.g, txid),
                     0, IF Deleting(txid) # {} THEN "deleting" ELSE "-")

\* abort_trans(txid)
AbortTrans(plans) ==
    /\ fs.st = "open"
    /\ \E txid \in DOMAIN fs.sessions, plan \in plans :
         \E m \in {abort_trans(Start(plan), txid)} :
            /\ txid \in DOMAIN g.ops
            /\ txid \notin g.panicked
            /\ Leave(m, "abort", txid,
                     CASE m.halt = "panic" -> [m.g EXCEPT !.panicked = @ \cup {txid}]
                       [] txid \in DOMAIN m.fs.sessions ->
                              [m.g EXCEPT !.mustAbort = @ \cup {txid}]
                       [] OTHER -> Forget(m.g, txid), 0, "-")

\* TxMgr::begin_trans called by a thread; the call records the thread in id
TxBegin(threads, maxTx, plans) ==
    /\ fs.st = "open"
    /\ tm.saver = NoThread
    /\ tm.txid_wmark < maxTx
    /\ \E thread \in threads, plan \in plans :
         LET txid == tm.txid_wmark + 1
         IN \E m \in {TxMgrBeginTrans(Start(plan), thread)} :
              /\ Strikes(plan, m)
              /\ Leave(m, "tx_begin", IF m.err = "InTrans" THEN tm.current[thread] ELSE txid,
                       CASE m.halt = "run" ->
                               [m.g EXCEPT !.nextTx = txid + 1,
                                           !.ops = With(@, txid, 0),
                                           !.view = With(@, txid, NoView),
                                           !.app = With(@, txid, {})]
                         [] m.err = "InTrans" -> m.g
                         [] OTHER -> [m.g EXCEPT !.nextTx = txid + 1],
                       thread, "-")

\* the values of tests::trans_oper
CowVals == {42, 43}

\* into_cow by the thread of a transaction, for an entity that does not exist
IntoCow(threads, ids, vals) ==
    /\ fs.st = "open"
    /\ \E thread \in threads, id \in ids \ DOMAIN tm.cows, val \in vals :
         LET txid == tm.current[thread]
         IN /\ txid \in tm.txs
            /\ \E m \in {into_cow(Start(NoFault), id, val, txid)} :
                 Leave(m, "into_cow", txid,
                       IF m.halt = "run"
                       THEN [m.g EXCEPT !.cowPend = With(@, id, [txid |-> txid, val |-> val])]
                       ELSE m.g, id, "-")

\* make_mut and an assignment by the thread of a transaction
MakeMut(threads, ids, vals) ==
    /\ fs.st = "open"
    /\ \E thread \in threads, id \in ids \cap DOMAIN tm.cows, val \in vals :
         LET txid == tm.current[thread]
         IN /\ txid \in tm.txs
            /\ \E m \in {make_mut(Start(NoFault), id, val, txid)} :
                 Leave(m, "make_mut", txid,
                       IF m.halt = "run"
                       THEN [m.g EXCEPT !.cowPend = With(@, id, [txid |-> txid, val |-> val])]
                       ELSE m.g, id, "-")

\* the committed entities after transaction txid committed: the number of
\* committed updates of each and the value the last one left
CowCommitted(gh, txid) ==
    LET mine == {id \in DOMAIN gh.cowPend : gh.cowPend[id].txid = txid}
    IN [id \in DOMAIN gh.cows \cup mine |->
           IF id \notin mine THEN gh.cows[id]
           ELSE [flips |-> IF id \in DOMAIN gh.cows THEN gh.cows[id].flips + 1 ELSE 0,
                 val   |-> gh.cowPend[id].val]]

\* TxHandle::commit (txmgr.rs:290-293) by the thread of the transaction
TxCommit(threads, plans) ==
    /\ fs.st = "open"
    /\ tm.saver = NoThread
    /\ \E thread \in threads, plan \in plans :
         LET txid      == tm.current[thread]
             committed == Applied(g.committed, g.view[txid])
         IN /\ txid \in tm.txs
            /\ \E m \in {TxMgrCommitTrans(Start(plan), txid, thread)} :
                 /\ Usable(txid)
                 /\ Strikes(plan, m)
                 /\ Leave(m, "tx_commit", txid,
                          CASE m.halt = "run" ->
                                  [Forget(m.g, txid) EXCEPT
                                      !.committed = committed,
                                      !.history = @ \cup {committed},
                                      !.order = Append(@, txid),
                                      !.cows = CowCommitted(g, txid)]
                            [] m.halt = "panic" -> [m.g EXCEPT !.panicked = @ \cup {txid}]
                            [] OTHER ->
                                  [Forget(m.g, txid) EXCEPT !.refused = @ \cup {txid}],
                          0, "-")

\* the error a closure of run or run_all returns
ClosureErrs == {"NotFound"}

\* TxHandle::run, run_all (txmgr.rs:268-287) when the closure returns an
\* error: TxHandle::abort
TxAbort(threads, plans) ==
    /\ fs.st = "open"
    /\ \E thread \in threads, plan \in plans, e \in ClosureErrs :
         LET txid == tm.current[thread]
         IN /\ txid \in tm.txs
            /\ \E m \in {TxHandleAbort(Start(plan), e, txid, thread)} :
                 /\ Usable(txid)
                 /\ Strikes(plan, m)
                 /\ Leave(m, "tx_abort", txid,
                          IF m.halt = "panic" THEN [m.g EXCEPT !.panicked = @ \cup {txid}]
                          ELSE Forget(m.g, txid), 0, e)

\* TxMgr::add_to_trans called for an entity by the thread of a transaction;
\* the call records who held the entity: nobody ("free"), the transaction
\* itself ("own") or another one ("held")
TxAdd(threads, ids) ==
    /\ fs.st = "open"
    /\ \E thread \in threads, id \in ids :
         LET txid == tm.current[thread]
         IN /\ txid \in tm.txs
            /\ \E m \in {add_to_trans(Start(NoFault), id, txid)} :
                 Leave(m, "tx_add", txid, m.g, id,
                       IF id \notin DOMAIN tm.ents THEN "free"
                       ELSE IF tm.ents[id] = txid THEN "own" ELSE "held")

\* TxMgr::add_to_trans called with any txid, also one whose transaction has
\* ended or has not begun
AddToTrans(ids, txids) ==
    /\ fs.st = "open"
    /\ tm.saver = NoThread
    /\ \E id \in ids, txid \in txids :
         \E m \in {add_to_trans(Start(NoFault), id, txid)} :
            Leave(m, "add_to_trans", txid, m.g, id,
                  IF id \notin DOMAIN tm.ents THEN "free"
                  ELSE IF tm.ents[id] = txid THEN "own" ELSE "held")

\* a write to an entity by the transaction it is enrolled in
TxWrite(ids, bufs) ==
    \E id \in ids :
        /\ id \in DOMAIN tm.ents
        /\ Write({id}, bufs, {NoFault}, {"write"}, 1, NoBudget)
        /\ last'.txid = tm.ents[id]

\* a second instance tries to open the volume while the lock file exists (an
\* attempt on a free lock is Open above)
OtherOpen ==
    /\ other.st = "none"
    /\ disk.lockFile
    /\ \E m \in {open(Machine(disk, FsNew, g, {}, NoKill))} :
          /\ disk' = m.disk
          /\ other' = [st |-> "failed", lock_path |-> m.fs.lock_path]
          /\ last' = Result("other_open", EmptyTxid, m.err)
          /\ UNCHANGED <<fs, tm, g, sq>>

\* a second instance tries to init the volume, on the base directory of the
\* volume or on a fresh directory, under the same volume id
OtherInit ==
    /\ other.st = "none"
    /\ disk.lockFile
    /\ \E fresh \in BOOLEAN :
         \E m \in {init(Machine([disk EXCEPT !.dirs = IF fresh THEN FALSE ELSE @],
                                FsNew, g, {}, NoKill))} :
            /\ disk' = [disk EXCEPT !.lockFile = m.disk.lockFile]
            /\ other' = [st |-> "failed", lock_path |-> m.fs.lock_path]
            /\ last' = Result(IF fresh THEN "other_init_fresh" ELSE "other_init",
                              EmptyTxid, m.err)
            /\ UNCHANGED <<fs, tm, g, sq>>

\* save_walq of one thread step by step, next to other threads in
\* transactions. The allocator is shared with the volume.

\* Allocator::reserve(blk_cnt): the watermark the allocator will have once
\* blk_cnt more blocks are taken
reserve(blk_wmark, blk_cnt) == blk_wmark + blk_cnt

\* a thread takes the writer lock of the TxMgr and enters save_walq: the
\* reservation (txmgr.rs:55-58)
Reserve(threads) ==
    /\ fs.st = "open"
    /\ tm.saver = NoThread
    /\ tm.blk_wmark < MaxBlkWmark
    /\ \E thread \in threads :
          /\ tm' = [tm EXCEPT !.saver = thread, !.reserved = reserve(tm.blk_wmark, 1),
                              !.saved = FALSE]
          /\ last' = [Result("reserve", tm.current[thread], "Ok") EXCEPT !.id = thread]
    /\ UNCHANGED <<disk, fs, other, g, sq>>

\* the watermarks are set and the WAL queue is saved, which takes one block
\* (txmgr.rs:60-62)
SaveItem ==
    /\ tm.saver # NoThread
    /\ ~tm.saved
    /\ \E m \in {save_walq(Start(NoFault))} :
          /\ disk' = m.disk
          /\ tm' = [tm EXCEPT !.saved = TRUE, !.blk_wmark = @ + 1]
          /\ last' = [Result("save_item", tm.current[tm.saver], m.err) EXCEPT !.id = tm.saver]
    /\ UNCHANGED <<fs, other, g, sq>>

\* the assertion at the end of save_walq (txmgr.rs:64-68), after which the
\* thread leaves the TxMgr
AssertWmark ==
    /\ tm.saver # NoThread
    /\ tm.saved
    /\ tm' = [tm EXCEPT !.saver = NoThread, !.reserved = 0, !.saved = FALSE]
    /\ last' = [Result("assert_wmark", tm.current[tm.saver],
                       IF tm.blk_wmark = tm.reserved THEN "Ok" ELSE "Panic")
                   EXCEPT !.id = tm.saver]
    /\ UNCHANGED <<disk, fs, other, g, sq>>

\* whether a thread may take blocks from the allocator without the writer
\* lock of the TxMgr
AllocateFree(thread) == TRUE

\* whether a thread may take blocks from the allocator: only with the writer
\* lock of the TxMgr
AllocateLocked(thread) == tm.saver = NoThread

\* a thread in a transaction writes and takes a block from the allocator
Allocate(threads) ==
    /\ fs.st = "open"
    /\ tm.blk_wmark < MaxBlkWmark
    /\ \E thread \in threads :
          /\ tm.current[thread] \in tm.txs
          /\ AllocateLocked(thread)
          /\ tm' = [tm EXCEPT !.blk_wmark = @ + 1]
          /\ last' = [Result("allocate", tm.current[thread], "Ok") EXCEPT !.id = thread]
    /\ UNCHANGED <<disk, fs, other, g, sq>>

\* the alignment functions applied to a value and a power-of-two size
AlignSizes == {1, 2, 4, 8, BLK_SIZE}

AlignXs == 0..MaxAlignX \cup {BLK_SIZE - 1, BLK_SIZE, BLK_SIZE + 1, 2 * BLK_SIZE}

AlignCeil ==
    /\ \E x \in AlignXs, size \in AlignSizes :
          last' = [op |-> "align_ceil", x |-> x, size |-> size, res |-> align_ceil(x, size)]
    /\ UNCHANGED <<disk, fs, other, tm, g, sq>>

AlignCeilU64 ==
    /\ \E x \in AlignXs, size \in AlignSizes :
          last' = [op |-> "align_ceil_u64", x |-> x, size |-> size,
                   res |-> align_ceil_u64(x, size)]
    /\ UNCHANGED <<disk, fs, other, tm, g, sq>>

AlignCeilChunk ==
    /\ \E x \in AlignXs, size \in AlignSizes :
          last' = [op |-> "align_ceil_chunk", x |-> x, size |-> size,
                   res |-> align_ceil_chunk(x, size)]
    /\ UNCHANGED <<disk, fs, other, tm, g, sq>>

\* Session::alloc(size) on a session with any watermark; res is the number
\* of blocks the watermark grew by
SessionAlloc ==
    /\ \E x \in AlignXs, wmark \in 0..MaxBlk :
          LET s == [SessionNew(1, 1) EXCEPT !.wmark = wmark]
          IN last' = [op |-> "alloc", x |-> x, size |-> BLK_SIZE,
                      res |-> alloc(s, x).session.wmark - wmark]
    /\ UNCHANGED <<disk, fs, other, tm, g, sq>>

\* lock_storage of one of two openers, step by step. Opener 1 is the instance
\* fs, opener 2 the instance other; "checked" is an opener that found no lock
\* file and has not created it yet.

\* the existence check of lock_storage (file.rs:384-386)
LockCheck(who) ==
    /\ disk.dirs
    /\ IF who = 1 THEN fs.st = "down" ELSE other.st = "none"
    /\ LET st == IF disk.lockFile THEN "failed" ELSE "checked"
       IN IF who = 1 THEN fs' = [fs EXCEPT !.st = st] /\ UNCHANGED other
          ELSE other' = [other EXCEPT !.st = st] /\ UNCHANGED fs
    /\ last' = [Result("lock_check", EmptyTxid, IF disk.lockFile THEN "Opened" ELSE "Ok")
                   EXCEPT !.id = who]
    /\ UNCHANGED <<disk, tm, g, sq>>

\* the exclusive create of lock_storage (file.rs:388-394) and, once the lock
\* is held, the rest of FileStorage::open: create_new fails with an I/O error
\* on a file that exists
LockCreate(who) ==
    /\ IF who = 1 THEN fs.st = "checked" ELSE other.st = "checked"
    /\ \E m \in {IF disk.lockFile
                 THEN Fail(Machine(disk, FsNew, g, {}, NoKill), "Io")
                 ELSE open_history(Machine([disk EXCEPT !.lockFile = TRUE],
                                           [FsNew EXCEPT !.lock_path = TRUE],
                                           g, {}, NoKill))} :
          /\ disk' = m.disk
          /\ g' = m.g
          /\ IF who = 1
             THEN fs' = [m.fs EXCEPT !.st = IF m.halt = "run" THEN "open" ELSE "failed"]
                  /\ UNCHANGED other
             ELSE other' = [st |-> IF m.halt = "run" THEN "open" ELSE "failed",
                            lock_path |-> m.fs.lock_path]
                  /\ UNCHANGED fs
          /\ last' = [Result("lock_create", EmptyTxid, m.err) EXCEPT !.id = who]
          /\ UNCHANGED <<tm, sq>>

\* force without effect: the lock file is left where it is
force_unlock_keep(m) == m

\* RepoOpener::force (spec section 5): the lock file is removed before the
\* storage is opened
force_unlock(m) ==
    IF m.disk.lockFile THEN Io(m, LAMBDA x : [x EXCEPT !.disk.lockFile = FALSE]) ELSE m

\* a second instance opens the volume with force while the lock file exists,
\* held by the first instance or left behind by a killed one
ForceOpen ==
    /\ other.st = "none"
    /\ disk.lockFile
    /\ \E m \in {open(force_unlock(Machine(disk, FsNew, g, {}, NoKill)))} :
          /\ disk' = m.disk
          /\ other' = [st |-> IF m.halt = "run" THEN "open" ELSE "failed",
                       lock_path |-> m.fs.lock_path]
          /\ last' = [Result("force_open", EmptyTxid, m.err) EXCEPT
                         !.after = IF fs.st = "open" THEN "held" ELSE "stale"]
          /\ UNCHANGED <<fs, tm, g, sq>>

\* the second instance is dropped
OtherDrop ==
    /\ other.st # "none"
    /\ disk' = drop(Machine(disk, [FsNew EXCEPT !.lock_path = other.lock_path],
                            g, {}, NoKill)).disk
    /\ other' = [st |-> "none", lock_path |-> FALSE]
    /\ last' = Result("other_drop", EmptyTxid, "Ok")
    /\ UNCHANGED <<fs, tm, g, sq>>

\* ------------------------------------------------------------------------
\* SqliteStorage (sqlite.rs). The database file holds three tables keyed by
\* what the statements bind; a block row is written as the byte that fills
\* its BLK_SIZE bytes.
\* ------------------------------------------------------------------------

\* a u64 as its upper and its lower 32 bits
U64(hi, lo) == [hi |-> hi, lo |-> lo]

\* start_idx + k (within the bounds without a carry into the upper half)
Plus(n, k) == [n EXCEPT !.lo = @ + k]

\* bind_int (sqlite.rs:33-41): `n as c_int` keeps the lower 32 bits
bind_int(n) == n.lo

\* bind_id (sqlite.rs:43-60): the text is bound as SQLITE_STATIC and the
\* CString that holds it is freed when bind_id returns, so that the statement
\* reads freed memory when it runs: the text of the id still, or what the
\* allocator left there
bind_id(id) == {[id |-> id, freed |-> f] : f \in BOOLEAN}

\* vec![1, 2, 3] and a second buffer
B123 == <<1, 2, 3>>
B456 == <<4, 5, 6>>

NoPut == [op |-> "-", key |-> 0, data |-> <<>>]

\* SqliteStorage::new (sqlite.rs:131-137) on a directory without database
\* file; put, live, gone, ids and del record what the callers stored and
\* deleted, under the keys they passed, and calls how many puts and dels
\* they made
SqNew ==
    [st |-> "none", file |-> FALSE, super |-> None, addrs |-> None, blocks |-> None,
     put |-> NoPut, live |-> None, gone |-> {}, ids |-> None, del |-> {}, calls |-> 0]

\* the database file
Db(q) == <<q.file, q.super, q.addrs, q.blocks>>

SqResult(op, key, cnt, res, data, q) ==
    [op |-> op, key |-> key, cnt |-> cnt, res |-> res, data |-> data,
     same |-> Db(q) = Db(sq)]

\* the loop of put_blocks (sqlite.rs:387-398) from row k on: INSERT fails on a
\* blk_idx that is stored, and the rows before it stay inserted
RECURSIVE put_rows(_, _, _, _)
put_rows(blocks, start_idx, blks, k) ==
    IF k > Len(blks) THEN [blocks |-> blocks, res |-> "Ok", n |-> Len(blks)]
    ELSE IF bind_int(Plus(start_idx, k - 1)) \in DOMAIN blocks
    THEN [blocks |-> blocks, res |-> "Sqlite", n |-> k - 1]
    ELSE put_rows(With(blocks, bind_int(Plus(start_idx, k - 1)), blks[k]),
                  start_idx, blks, k + 1)

\* the loop of get_blocks (sqlite.rs:364-373) from row k on; run_select_blob
\* (sqlite.rs:89-115) returns NotFound when the statement finds no row
RECURSIVE get_rows(_, _, _, _, _)
get_rows(blocks, start_idx, cnt, k, dst) ==
    IF k > cnt THEN [res |-> "Ok", data |-> dst]
    ELSE IF bind_int(Plus(start_idx, k - 1)) \notin DOMAIN blocks
    THEN [res |-> "NotFound", data |-> <<>>]
    ELSE get_rows(blocks, start_idx, cnt, k + 1,
                  Append(dst, blocks[bind_int(Plus(start_idx, k - 1))]))

\* the indices start_idx .. start_idx + cnt
Range(start_idx, cnt) == {Plus(start_idx, k) : k \in 0..cnt - 1}

\* SqliteStorage::new and init (sqlite.rs:255-299): CREATE TABLE fails on a
\* database that has the tables
SqInit ==
    /\ sq.st = "none"
    /\ sq' = IF sq.file THEN [sq EXCEPT !.st = "failed"]
             ELSE [sq EXCEPT !.st = "ready", !.file = TRUE]
    /\ last' = SqResult("init", 0, 0, IF sq.file THEN "Sqlite" ELSE "Ok", <<>>, sq')
    /\ UNCHANGED <<disk, fs, other, tm, g>>

\* SqliteStorage::new and open (sqlite.rs:301-307): without SQLITE_OPEN_CREATE
\* connect fails when there is no database file
SqOpen ==
    /\ sq.st = "none"
    /\ sq' = [sq EXCEPT !.st = IF sq.file THEN "ready" ELSE "failed"]
    /\ last' = SqResult("open", 0, 0, IF sq.file THEN "Ok" ELSE "Sqlite", <<>>, sq')
    /\ UNCHANGED <<disk, fs, other, tm, g>>

\* Drop for SqliteStorage (sqlite.rs:418-434)
SqDrop ==
    /\ sq.st # "none"
    /\ sq' = [sq EXCEPT !.st = "none"]
    /\ last' = SqResult("drop", 0, 0, "Ok", <<>>, sq')
    /\ UNCHANGED <<disk, fs, other, tm, g>>

\* put_super_block (sqlite.rs:317-325): INSERT fails on a suffix that is
\* stored
PutSuperBlock(suffixes, bufs) ==
    /\ sq.st = "ready"
    /\ sq.calls < MaxSqOps
    /\ \E suffix \in suffixes, super_blk \in bufs :
         LET stored == bind_int(suffix) \in DOMAIN sq.super
         IN /\ sq' = IF stored THEN [sq EXCEPT !.put = NoPut, !.calls = @ + 1]
                     ELSE [sq EXCEPT !.calls = @ + 1, !.super = With(@, bind_int(suffix), super_blk),
                                     !.put = [op |-> "super_block", key |-> suffix,
                                              data |-> super_blk]]
            /\ last' = SqResult("put_super_block", suffix, 0,
                                IF stored THEN "Sqlite" ELSE "Ok", <<>>, sq')
    /\ UNCHANGED <<disk, fs, other, tm, g>>

\* get_super_block (sqlite.rs:309-315)
GetSuperBlock(suffixes) ==
    /\ sq.st = "ready"
    /\ \E suffix \in suffixes :
         last' = IF bind_int(suffix) \in DOMAIN sq.super
                 THEN SqResult("get_super_block", suffix, 0, "Ok",
                               sq.super[bind_int(suffix)], sq)
                 ELSE SqResult("get_super_block", suffix, 0, "NotFound", <<>>, sq)
    /\ UNCHANGED <<disk, fs, other, tm, g, sq>>

\* put_addr (sqlite.rs:335-343): INSERT OR REPLACE under the text the
\* statement reads
PutAddr(ids, bufs) ==
    /\ sq.st = "ready"
    /\ sq.calls < MaxSqOps
    /\ \E id \in ids, addr \in bufs :
         \E text \in bind_id(id) :
            /\ sq' = [sq EXCEPT !.calls = @ + 1, !.addrs = With(@, text, addr),
                                !.put = [op |-> "addr", key |-> id, data |-> addr],
                                !.ids = With(@, id, addr),
                                !.del = @ \ {id}]
            /\ last' = SqResult("put_addr", id, 0, "Ok", <<>>, sq')
    /\ UNCHANGED <<disk, fs, other, tm, g>>

\* get_addr (sqlite.rs:327-333)
GetAddr(ids) ==
    /\ sq.st = "ready"
    /\ \E id \in ids :
         \E text \in bind_id(id) :
            last' = IF text \in DOMAIN sq.addrs
                    THEN SqResult("get_addr", id, 0, "Ok", sq.addrs[text], sq)
                    ELSE SqResult("get_addr", id, 0, "NotFound", <<>>, sq)
    /\ UNCHANGED <<disk, fs, other, tm, g, sq>>

\* del_addr (sqlite.rs:345-351): DELETE of the row with the text the
\* statement reads, if there is one
DelAddr(ids) ==
    /\ sq.st = "ready"
    /\ sq.calls < MaxSqOps
    /\ \E id \in ids :
         \E text \in bind_id(id) :
            /\ sq' = [sq EXCEPT !.calls = @ + 1, !.addrs = Without(@, text),
                                !.put = NoPut,
                                !.ids = Without(@, id),
                                !.del = @ \cup {id}]
            /\ last' = [SqResult("del_addr", id, 0, "Ok", <<>>, sq') EXCEPT
                           !.cnt = IF id \in DOMAIN sq.ids THEN 1 ELSE 0]
    /\ UNCHANGED <<disk, fs, other, tm, g>>

\* put_blocks (sqlite.rs:378-401)
PutBlocks(starts, blkss) ==
    /\ sq.st = "ready"
    /\ sq.calls < MaxSqOps
    /\ \E start_idx \in starts, blks \in blkss :
         \E r \in {put_rows(sq.blocks, start_idx, blks, 1)} :
            /\ sq' = [sq EXCEPT
                         !.calls = @ + 1, !.blocks = r.blocks,
                         !.put = IF r.res = "Ok"
                                 THEN [op |-> "blocks", key |-> start_idx, data |-> blks]
                                 ELSE NoPut,
                         !.live = [i \in DOMAIN @ \cup Range(start_idx, r.n) |->
                                       IF i \in Range(start_idx, r.n)
                                       THEN blks[i.lo - start_idx.lo + 1] ELSE @[i]],
                         !.gone = @ \ Range(start_idx, r.n)]
            /\ last' = SqResult("put_blocks", start_idx, Len(blks), r.res, <<>>, sq')
    /\ UNCHANGED <<disk, fs, other, tm, g>>

\* get_blocks (sqlite.rs:353-375)
GetBlocks(starts, cnts) ==
    /\ sq.st = "ready"
    /\ \E start_idx \in starts, cnt \in cnts :
         \E r \in {get_rows(sq.blocks, start_idx, cnt, 1, <<>>)} :
            last' = SqResult("get_blocks", start_idx, cnt, r.res, r.data, sq)
    /\ UNCHANGED <<disk, fs, other, tm, g, sq>>

\* del_blocks (sqlite.rs:403-415): DELETE of each row of the range, if there
\* is one
DelBlocks(starts, cnts) ==
    /\ sq.st = "ready"
    /\ sq.calls < MaxSqOps
    /\ \E start_idx \in starts, cnt \in cnts :
         /\ sq' = [sq EXCEPT
                      !.calls = @ + 1, !.blocks = [i \in DOMAIN @ \ {bind_int(n) : n \in Range(start_idx, cnt)}
                                     |-> @[i]],
                      !.put = NoPut,
                      !.live = [i \in DOMAIN @ \ Range(start_idx, cnt) |-> @[i]],
                      !.gone = @ \cup Range(start_idx, cnt)]
         /\ last' = [SqResult("del_blocks", start_idx, cnt, "Ok", <<>>, sq') EXCEPT
                        !.data = IF Range(start_idx, cnt) \cap DOMAIN sq.live = {}
                                 THEN <<>> ELSE <<1>>]
    /\ UNCHANGED <<disk, fs, other, tm, g>>

\* ------------------------------------------------------------------------
\* Specifications
\* ------------------------------------------------------------------------

\* vec![1, 2, 3]
D123 == <<<<1, 1>>, <<2, 1>>, <<3, 1>>>>

\* vec![4, 5, 6]
D456 == <<<<4, 1>>, <<5, 1>>, <<6, 1>>>>

Init ==
    /\ disk = [sessFiles |-> {}, snapFiles |-> None, emapFiles |-> None,
               blocks |-> None, lockFile |-> FALSE, dirs |-> FALSE,
               walq |-> [txid_wmark |-> 0, recs |-> None]]
    /\ tm = TmNew
    /\ fs = FsNew
    /\ other = [st |-> "none", lock_path |-> FALSE]
    /\ last = Result("new", EmptyTxid, "Ok")
    /\ sq = SqNew
    /\ g = GInit

\* crash recovery: one session at a time, kills inside commit_trans and open
Next ==
    \/ InitStorage
    \/ Open({NoFault} \cup KillPlans, "FileStorage")
    \/ Kill
    \/ ForceUnlock
    \/ BeginTrans(MaxTx, 1, {NoFault})
    \/ Write({1}, {D123}, {NoFault}, {"write"}, MaxCrashOps, NoBudget)
    \/ CommitTrans({NoFault} \cup KillPlans)
    \/ AbortTrans({NoFault})

Spec == Init /\ [][Next]_vars

\* concurrent sessions: several sessions live at a time, clean drop and reopen
NextConc ==
    \/ InitStorage
    \/ Open({NoFault}, "FileStorage")
    \/ Drop
    \/ BeginTrans(MaxTx, MaxLive, {NoFault})
    \/ Write(Eids, {D123}, {NoFault}, {"write"}, 1, NoBudget)
    \/ Del({1}, 1, NoBudget)
    \/ CommitTrans({NoFault})
    \/ AbortTrans({NoFault})

SpecConc == Init /\ [][NextConc]_vars

\* the byte strings of tests::read_write: empty, shorter than a block, one
\* block, longer than a block
WriteBufs == {<<>>, D123, Fill(41, BLK_SIZE), Fill(42, BLK_SIZE + 42)}

\* appended bytes that fit into the tail block after three bytes, that fill
\* it exactly, and that spill into a new block
AppendBufs == {D456, Fill(42, BLK_SIZE - 3), Fill(42, BLK_SIZE)}

\* data: one session at a time, no faults, writes, appends and deletes of
\* every size class, clean drop and reopen
NextData ==
    \/ InitStorage
    \/ Open({NoFault}, "FileStorage")
    \/ Drop
    \/ BeginTrans(MaxDataTx, 1, {NoFault})
    \/ Write({1}, WriteBufs, {NoFault}, {"write"}, MaxOps, MaxRunOps)
    \/ Write({2}, {D123}, {NoFault}, {"write"}, MaxOps, MaxRunOps)
    \/ Write({1}, AppendBufs, {NoFault}, {"append"}, MaxOps, MaxRunOps)
    \/ Write(Eids, {D123}, {NoFault}, {"beyond"}, MaxOps, MaxRunOps)
    \/ Del({1}, MaxOps, MaxRunOps)
    \/ CommitTrans({NoFault})
    \/ AbortTrans({NoFault})

SpecData == Init /\ [][NextData]_vars

\* lock: a holder, a second instance that keeps trying, kills and forced
\* unlocks
NextLock ==
    \/ InitStorage
    \/ Open({NoFault}, "FileStorage")
    \/ Drop
    \/ Kill
    \/ ForceUnlock
    \/ OtherOpen
    \/ OtherInit
    \/ OtherDrop
    \/ BeginTrans(MaxLockTx, 1, {NoFault})
    \/ CommitTrans({NoFault})

SpecLock == Init /\ [][NextLock]_vars

\* status files: kills and I/O errors at every disk operation of commit_trans,
\* I/O errors in abort_trans, kills in the recovery of open
NextStatus ==
    \/ InitStorage
    \/ Open({NoFault} \cup KillPlans, "FileStorage")
    \/ Kill
    \/ ForceUnlock
    \/ BeginTrans(MaxTx, 1, {NoFault})
    \/ Write({1}, {D123}, {NoFault}, {"write"}, MaxCrashOps, NoBudget)
    \/ CommitTrans({NoFault} \cup KillPlans \cup FailPlans)
    \/ AbortTrans({NoFault} \cup FailPlans)

SpecStatus == Init /\ [][NextStatus]_vars

\* isolation: sessions side by side that write, append to and delete the same
\* entities with different bytes
NextIso ==
    \/ InitStorage
    \/ BeginTrans(MaxIsoTx, MaxLive, {NoFault})
    \/ Write({1}, {D123, D456}, {NoFault}, {"write"}, MaxIsoOps, MaxRunOps)
    \/ Write({2}, {D123}, {NoFault}, {"write"}, MaxIsoOps, MaxRunOps)
    \/ Write({1}, {D456}, {NoFault}, {"append"}, MaxIsoOps, MaxRunOps)
    \/ Del({1}, MaxIsoOps, MaxRunOps)
    \/ CommitTrans({NoFault})
    \/ AbortTrans({NoFault})

SpecIso == Init /\ [][NextIso]_vars

\* allocator: threads in transactions take blocks while a thread saves the
\* WAL queue
NextAlloc ==
    \/ InitStorage
    \/ Open({NoFault}, "TxMgr")
    \/ Drop
    \/ TxBegin(Threads, MaxLockTx, {NoFault})
    \/ TxCommit(Threads, {NoFault})
    \/ Reserve(Threads)
    \/ SaveItem
    \/ AssertWmark
    \/ Allocate(Threads)

SpecAlloc == Init /\ [][NextAlloc]_vars

\* alignment: the functions of utils.rs and Session::alloc on values around
\* zero and around the block size
NextAlign ==
    \/ AlignCeil
    \/ AlignCeilU64
    \/ AlignCeilChunk
    \/ SessionAlloc

SpecAlign == Init /\ [][NextAlign]_vars

\* enrollment: add_to_trans with the txids of transactions that run, that
\* ended and that have not begun
NextEnroll ==
    \/ InitStorage
    \/ Open({NoFault}, "TxMgr")
    \/ Drop
    \/ TxBegin(Threads, MaxMgrTx, {NoFault})
    \/ TxCommit(Threads, {NoFault})
    \/ TxAbort(Threads, {NoFault})
    \/ AddToTrans(Eids, 1..MaxMgrTx)

SpecEnroll == Init /\ [][NextEnroll]_vars

\* rollback: an I/O error at a disk operation of commit_trans and a second
\* one at a disk operation of the rollback that follows
NextRollback ==
    \/ InitStorage
    \/ BeginTrans(MaxLockTx, MaxLive, {NoFault})
    \/ Write({1}, {D123}, {NoFault}, {"write"}, MaxCrashOps, NoBudget)
    \/ CommitTrans({[failAt |-> {i, j}, killAt |-> NoKill] : i, j \in 0..MaxIo})
    \/ AbortTrans({NoFault})

SpecRollback == Init /\ [][NextRollback]_vars

\* race: two openers whose existence checks and creates interleave
NextRace ==
    \/ InitStorage
    \/ Drop
    \/ OtherDrop
    \/ LockCheck(1)
    \/ LockCheck(2)
    \/ LockCreate(1)
    \/ LockCreate(2)
    \/ Kill
    \/ ForceUnlock
    \/ BeginTrans(MaxLockTx, 1, {NoFault})
    \/ CommitTrans({NoFault})

SpecRace == Init /\ [][NextRace]_vars

\* force: a holder with transactions in flight, kills, and a second instance
\* that opens with force
NextForce ==
    \/ InitStorage
    \/ Open({NoFault}, "FileStorage")
    \/ Drop
    \/ Kill
    \/ ForceOpen
    \/ OtherDrop
    \/ BeginTrans(MaxLockTx, MaxLive, {NoFault})
    \/ CommitTrans({NoFault})

SpecForce == Init /\ [][NextForce]_vars

\* SqliteStorage: one instance at a time on one database file; block
\* indices with and without upper bits
Suffixes == {U64(0, 0), U64(0, 1)}

BlkIdxs == {U64(hi, lo) : hi \in 0..MaxHi, lo \in 0..MaxBlk}

Blkss == {<<42>>, <<42, 43>>}

NextSqlite ==
    \/ SqInit
    \/ SqOpen
    \/ SqDrop
    \/ PutSuperBlock(Suffixes, {B123})
    \/ GetSuperBlock(Suffixes)
    \/ PutAddr(Eids, {B123, B456})
    \/ GetAddr(Eids)
    \/ DelAddr(Eids)
    \/ PutBlocks(BlkIdxs, Blkss)
    \/ GetBlocks(BlkIdxs, 1..2)
    \/ DelBlocks(BlkIdxs, 1..2)

SpecSqlite == Init /\ [][NextSqlite]_vars

\* transaction manager: one transaction at a time through TxMgr, an I/O
\* error at any disk operation of a commit, clean drop and reopen
NextTx ==
    \/ InitStorage
    \/ Open({NoFault}, "TxMgr")
    \/ Drop
    \/ TxBegin({1}, MaxMgrTx, {NoFault})
    \/ TxAdd({1}, {1})
    \/ Write({1}, {D123}, {NoFault}, {"write"}, 1, NoBudget)
    \/ Del({1}, 1, NoBudget)
    \/ TxCommit({1}, {NoFault} \cup FailPlans)
    \/ TxAbort({1}, {NoFault} \cup FailPlans)

SpecTx == Init /\ [][NextTx]_vars

\* transaction manager and crashes: the process is killed before any disk
\* operation of a begin or of a commit, or between two calls; the lock file
\* it leaves is removed and the volume is opened again; a begin may also
\* fail with an I/O error, and a transaction may abort
NextWal ==
    \/ InitStorage
    \/ Open({NoFault}, "TxMgr")
    \/ Kill
    \/ ForceUnlock
    \/ TxBegin({1}, MaxMgrTx, {NoFault} \cup KillPlans \cup FailPlans)
    \/ Write({1}, {D123}, {NoFault}, {"write"}, 1, NoBudget)
    \/ TxCommit({1}, {NoFault} \cup KillPlans)
    \/ TxAbort({1}, {NoFault})

SpecWal == Init /\ [][NextWal]_vars

\* COW entities: the transactions of one thread create and update them, and
\* commit (with an I/O error at any disk operation) or abort
NextCow ==
    \/ InitStorage
    \/ TxBegin({1}, MaxCowTx, {NoFault})
    \/ IntoCow({1}, Eids, {42})
    \/ MakeMut({1}, Eids, CowVals)
    \/ TxCommit({1}, {NoFault} \cup FailPlans)
    \/ TxAbort({1}, {NoFault})

SpecCow == Init /\ [][NextCow]_vars

\* transaction manager with several threads: each thread begins, enrolls
\* entities, writes, commits or aborts; the calls of the threads interleave
\* in every order
NextMgr ==
    \/ InitStorage
    \/ Open({NoFault}, "TxMgr")
    \/ Drop
    \/ TxBegin(Threads, MaxMgrTx, {NoFault})
    \/ TxAdd(Threads, Eids)
    \/ TxWrite(Eids, {D123})
    \/ TxCommit(Threads, {NoFault})
    \/ TxAbort(Threads, {NoFault})

SpecMgr == Init /\ [][NextMgr]_vars

\* ------------------------------------------------------------------------
\* Crash recovery (specification Spec)
\* ------------------------------------------------------------------------

\* an open that got past the lock: it returned, and not because the volume
\* is locked
Reopened == last.op = "open" /\ last.res \notin {"Opened", "Killed"}

\* the blocks, emap file, snapshot file and session file of txid are gone
NoTraceOf(txid) ==
    /\ \A loc \in DOMAIN disk.blocks : loc[1] # txid
    /\ txid \notin DOMAIN disk.emapFiles
    /\ txid \notin DOMAIN disk.snapFiles
    /\ \A f \in disk.sessFiles : f.txid # txid

\* a session file of a completed session is on disk
HasCompleted == \E f \in disk.sessFiles : is_completed(f.status)

\* C1 as stated: after a kill at any point of a run of transactions, the
\* following open succeeds and every entity reads as the committed
\* transactions left it, none of the writes of a transaction that had not
\* committed being visible; also when no transaction had committed yet.
C1_CrashPrefix ==
    Reopened => /\ last.res = "Ok"
                /\ ReadState(disk.blocks, fs.emap) = g.committed

\* C1, amended: after a kill at any point of a run of transactions that ran
\* one after the other, the open that follows the removal of the lock file
\* succeeds when a transaction had committed or none had begun, and every
\* entity then reads as the committed transactions left it; when the kill
\* hit the first transaction that ever began, open returns Corrupted and
\* changes nothing.
C1_CrashPrefixAmended ==
    /\ Reopened /\ (HasCompleted \/ disk.sessFiles = {}) =>
          /\ last.res = "Ok"
          /\ ReadState(disk.blocks, fs.emap) = g.committed
    /\ Reopened /\ ~HasCompleted /\ disk.sessFiles # {} =>
          /\ last.res = "Corrupted"
          /\ g.committed = [e \in Eids |-> Absent]

C1_Witness ==
    /\ Reopened
    /\ last.res = "Ok"
    /\ last.ret \in {"prepare", "recycle"}
    /\ g.committed[1] = D123

\* C2: when the last session file was .started, .prepare or .recycle, open
\* removes every trace of that transaction and the base emap is that of the
\* last committed transaction; when it was .committed or .dispose, open
\* yields the state after that transaction.
C2_RecoveryByStatus ==
    /\ Reopened /\ last.ret \in {"started", "prepare", "recycle"} =>
          /\ last.res = "Ok"
          /\ NoTraceOf(last.id)
          /\ last.txid \in DOMAIN disk.emapFiles
          /\ fs.emap = disk.emapFiles[last.txid]
          /\ ReadState(disk.blocks, fs.emap) = g.committed
    /\ Reopened /\ last.ret \in {"committed", "dispose"} =>
          /\ last.res = "Ok"
          /\ last.txid = last.id
          /\ fs.emap = disk.emapFiles[last.id]
          /\ ReadState(disk.blocks, fs.emap) = g.committed

\* C2, amended: the same when the session file of a completed session is on
\* disk; when the only session file is the .started file of the first
\* transaction, open returns Corrupted and removes nothing.
C2_RecoveryByStatusAmended ==
    /\ HasCompleted => C2_RecoveryByStatus
    /\ Reopened /\ ~HasCompleted /\ last.ret = "started" =>
          /\ last.res = "Corrupted"
          /\ \E f \in disk.sessFiles : f.txid = last.id /\ f.status = "started"

C2_Witness ==
    /\ Reopened
    /\ last.ret = "recycle"
    /\ NoTraceOf(last.id)
    /\ fs.emap[1] # NoSpace

\* C8: after a commit_trans that returned Ok at most MAX_SNAPSHOT_CNT
\* snapshots are retained, in memory and on disk, and the recycle list of
\* every snapshot that was retired has been passed to SectorMgr::recycle.
C8_SnapshotsBounded ==
    last.op = "commit" /\ last.res = "Ok" =>
        /\ Len(fs.snapshots) <= MAX_SNAPSHOT_CNT
        /\ Cardinality(DOMAIN disk.snapFiles) <= MAX_SNAPSHOT_CNT
        /\ g.lost = {}

\* ------------------------------------------------------------------------
\* Data (specification SpecData)
\* ------------------------------------------------------------------------

\* the offsets read from: the start, inside the first block, the start of the
\* second block
ReadOffsets == {0, 2, BLK_SIZE}

\* C4: an entity whose committed content b was written by write(id, 0, b)
\* reads, from every offset, as the bytes of b from that offset, in the same
\* process and after drop and reopen, until a later commit overwrites or
\* deletes it.
C4_WriteCommitRead ==
    fs.st = "open" =>
        \A e \in g.plain, offset \in ReadOffsets :
            LET b == g.committed[e]
            IN offset <= BLen(b) =>
                  read(disk, fs, e, offset, BLen(b) - offset, EmptyTxid)
                      = [res |-> "Ok", data |-> BDrop(b, offset)]

\* C5: an entity whose committed content was written by write(id, 0, b) and
\* then appended to with write(id, |b|, c) in the same transaction reads as b
\* followed by c and has length |b| + |c|.
C5_AppendInTx ==
    fs.st = "open" =>
        \A e \in g.appended :
            LET bc == g.committed[e]
            IN /\ fs.emap[e].len = BLen(bc)
               /\ read(disk, fs, e, 0, BLen(bc), EmptyTxid) = [res |-> "Ok", data |-> bc]

\* an append to an entity whose space a committed transaction allocated
AppendCommitted == last.op = "write" /\ last.ret = "append_committed"

\* C6 as stated: an append in a transaction to an entity that an earlier
\* transaction committed succeeds.
C6_AppendAcrossTx == AppendCommitted => last.res = "Ok"

\* C6, amended: an append in a transaction to an entity that an earlier
\* transaction committed fails the assertion of file.rs:688 and changes
\* nothing, neither on disk nor in the instance.
C6_AppendAcrossTxTraps ==
    AppendCommitted =>
        /\ last.res = "Panic"
        /\ last.same

C6_Witness ==
    /\ AppendCommitted
    /\ last.res = "Panic"
    /\ g.committed[last.id] = D123

\* C22: a write whose offset is neither 0 nor the length of the entity (one
\* byte beyond it, which for an entity that does not exist is offset 1) fails
\* an assertion and changes nothing: the instance (base emap, sessions with
\* their overlay emap, recycle list and watermark) and the disk are as before.
C22_BadOffsetTraps ==
    last.op = "write" /\ last.ret = "beyond" =>
        /\ last.res = "Panic"
        /\ last.same

\* a trapped write to an entity that the transaction itself wrote
C22_Witness ==
    /\ last.op = "write"
    /\ last.ret = "beyond"
    /\ last.res = "Panic"
    /\ last.txid \in DOMAIN fs.sessions
    /\ fs.sessions[last.txid].emap[last.id] # NoSpace

\* C28: after a commit that returned Ok every entity the transaction wrote
\* or deleted is as its last operation left it: absent when that was a del,
\* and read as the bytes written when that was a write.
C28_LastOpDecides ==
    [][last'.op = "commit" /\ last'.res = "Ok" /\ last'.txid \in DOMAIN g.view =>
          \A e \in Eids :
              g.view[last'.txid][e] # Untouched =>
                  ReadState(disk'.blocks, fs'.emap)[e] = g.view[last'.txid][e]]_vars

\* ------------------------------------------------------------------------
\* Concurrent sessions (specification SpecConc)
\* ------------------------------------------------------------------------

\* C7: an entity that a committed transaction deleted reads as NoEntity, in
\* the same process and after reopen, until a later commit writes it again;
\* the commit that deletes leaves every other entity readable with its
\* content; a del that returns None changes nothing.
C7_DeletedStaysDeleted ==
    /\ fs.st = "open" =>
          \A e \in g.deleted : read(disk, fs, e, 0, 0, EmptyTxid).res = "NoEntity"
    /\ last.op = "commit" /\ last.res = "Ok" /\ last.ret = "deleting" =>
          \A e \in Eids \ g.deleted :
              ReadState(disk.blocks, fs.emap)[e] = g.committed[e]
    /\ last.op = "del" /\ last.ret = "None" => last.same

\* every entity of the emap has all its blocks
Readable(emap) == \A e \in Eids : ReadState(disk.blocks, emap)[e] # Unreadable

\* C9: the blocks of every space that the base emap or the emap of a retained
\* snapshot refers to are on disk: recycle and cleanup never delete one.
C9_BaseBlocksKept ==
    fs.st = "open" =>
        /\ Readable(fs.emap)
        /\ \A i \in 1..Len(fs.snapshots) :
              fs.snapshots[i].txid \in DOMAIN disk.emapFiles =>
                  Readable(disk.emapFiles[fs.snapshots[i].txid])

\* the validity rule of spec section 4.4 is broken: no completed session, or
\* more than one session that is not completed, or a session that is not
\* completed and is not the last by seq
HistoryInvalid(files) ==
    LET uncompleted == {f \in files : f.status \notin {"committed", "dispose"}}
    IN \/ uncompleted = files
       \/ Cardinality(uncompleted) > 1
       \/ \E u \in uncompleted : \E f \in files \ {u} : f.seq >= u.seq

\* C18: an open that finds session files returns Corrupted when they break
\* the validity rule and does not return Corrupted when they keep it; an
\* open that finds no session file does not return Corrupted, and returns the
\* empty txid.
C18_CorruptedExactly ==
    [][last'.op = "open" /\ last'.res \notin {"Killed", "Opened"} =>
          IF disk.sessFiles = {}
          THEN last'.res = "Ok" /\ last'.txid = EmptyTxid
          ELSE (last'.res = "Corrupted") = HistoryInvalid(disk.sessFiles)]_vars

\* Corrupted for a history with a completed session and a single session
\* that is not completed and not the last
C18_Witness ==
    /\ last.op = "open"
    /\ last.res = "Corrupted"
    /\ \E f \in disk.sessFiles : is_completed(f.status)
    /\ Cardinality({f \in disk.sessFiles : ~is_completed(f.status)}) = 1

\* C20: an open that returns Ok after transactions committed returns the
\* txid of the transaction that committed last and has its emap as the base
\* emap, and every entity reads as the committed transactions left it.
C20_OpenReturnsLastCommit ==
    last.op = "open" /\ last.res = "Ok" /\ g.order # <<>> =>
        /\ last.txid = g.order[Len(g.order)]
        /\ last.txid \in DOMAIN disk.emapFiles
        /\ fs.emap = disk.emapFiles[g.order[Len(g.order)]]
        /\ ReadState(disk.blocks, fs.emap) = g.committed

\* ------------------------------------------------------------------------
\* Lock (specification SpecLock)
\* ------------------------------------------------------------------------

\* an attempt of the second instance while the holder holds the volume
Attempt == fs.st = "open" /\ last.op \in {"other_open", "other_init", "other_init_fresh"}

\* C10 as stated: while an instance holds the volume every other init or open
\* returns Opened, a failed attempt does not remove the holder's lock file
\* when it is dropped, and after the holder is dropped the next open succeeds.
C10_LockExclusion ==
    /\ Attempt => last.res = "Opened"
    /\ fs.st = "open" => disk.lockFile
    /\ last.op = "drop" /\ last.ret = "holder" => ~disk.lockFile
    /\ last.op = "open" /\ last.after = "holder_drop" => last.res = "Ok"

\* C10, amended: while an instance holds the volume every other open, and
\* every other init on a fresh base directory, returns Opened; an init on the
\* base directory of the volume fails with an I/O error before it looks at
\* the lock; no failed attempt owns the lock file, so that the holder's lock
\* file stays while the holder lives; the drop of the holder removes the lock
\* file, the open that follows it is not refused with Opened, and an open is
\* refused with Opened only while the lock file exists.
C10_LockExclusionAmended ==
    /\ Attempt => last.res = IF last.op = "other_init" THEN "Io" ELSE "Opened"
    /\ ~other.lock_path
    /\ fs.st = "open" => disk.lockFile /\ fs.lock_path
    /\ last.op = "drop" /\ last.ret = "holder" => ~disk.lockFile
    /\ last.op = "open" /\ last.res = "Opened" => disk.lockFile /\ ~fs.lock_path
    /\ last.op = "open" /\ last.after = "holder_drop" => last.res # "Opened"

C10_Witness ==
    /\ fs.st = "open"
    /\ last.op = "other_drop"
    /\ disk.lockFile

\* C23 as stated: an open with force of a volume whose lock file exists
\* succeeds.
C23_ForceOpens == last.op = "force_open" => last.res = "Ok"

\* C23, amended: an open with force of a volume whose lock file exists, held
\* or stale, is never refused with Opened and takes the lock; it succeeds
\* exactly when the session files keep the validity rule, and returns
\* Corrupted when they break it.
C23_ForceOpensAmended ==
    [][last'.op = "force_open" =>
          /\ last'.res = IF disk.sessFiles # {} /\ HistoryInvalid(disk.sessFiles)
                         THEN "Corrupted" ELSE "Ok"
          /\ last'.res = "Ok" => disk'.lockFile /\ other'.lock_path]_vars

\* a forced open that succeeds while the first instance holds the volume
C23_Witness ==
    /\ last.op = "force_open"
    /\ last.after = "held"
    /\ last.res = "Ok"
    /\ fs.st = "open"

\* C26: a transaction that is in txs, has a backend session or has a session
\* file has a txid that the saved WAL queue has counted, that is its begin
\* record was saved before; and after a begin_trans that failed without
\* saving the record the transaction is not in txs, has no backend session
\* and no session file, has no open record in the WAL queue, and the thread
\* has no current txid.
C26_BeginRecordFirst ==
    /\ \A txid \in tm.txs \cup DOMAIN fs.sessions \cup {f.txid : f \in disk.sessFiles} :
           txid <= disk.walq.txid_wmark
    /\ last.op = "tx_begin" /\ last.res = "Io" /\ disk.walq.txid_wmark < last.txid =>
           /\ last.txid \notin tm.txs
           /\ last.txid \notin DOMAIN fs.sessions
           /\ \A f \in disk.sessFiles : f.txid # last.txid
           /\ last.txid \notin DOMAIN tm.walq
           /\ tm.current[last.id] = EmptyTxid

\* a begin_trans that failed to save the begin record of its txid
C26_Witness ==
    /\ last.op = "tx_begin"
    /\ last.res = "Io"
    /\ tm.txid_wmark = last.txid
    /\ disk.walq.txid_wmark < last.txid
    /\ fs.st = "open"

\* ------------------------------------------------------------------------
\* Isolation (specification SpecIso)
\* ------------------------------------------------------------------------

\* read(id, 0, buf, txid) with a buffer larger than every entity
ReadAll(d, f, id, txid) == read(d, f, id, 0, 3 * BLK_SIZE, txid)

\* C27: a write or del of session T leaves the base emap as it was, and
\* read with the empty txid and with the txid of every other session returns
\* what it returned before the call; after a write that returned Ok, read
\* with txid T returns what T wrote; read with a txid that has no session
\* returns NoTrans.
C27_SessionIsolation ==
    [][last'.op \in {"write", "del"} =>
          /\ fs'.emap = fs.emap
          /\ \A id \in Eids :
                \A txid \in {EmptyTxid} \cup (DOMAIN fs.sessions \ {last'.txid}) :
                    ReadAll(disk', fs', id, txid) = ReadAll(disk, fs, id, txid)
          /\ last'.op = "write" /\ last'.res = "Ok" =>
                ReadAll(disk', fs', last'.id, last'.txid)
                    = [res |-> "Ok", data |-> g'.view[last'.txid][last'.id]]
          /\ \A id \in Eids : \A txid \in (1..MaxIsoTx) \ DOMAIN fs'.sessions :
                ReadAll(disk', fs', id, txid).res = "NoTrans"]_vars

\* a session wrote an entity that the base emap holds with other bytes and
\* that another live session wrote too
C27_Witness ==
    /\ last.op = "write"
    /\ last.res = "Ok"
    /\ fs.emap[last.id] # NoSpace
    /\ \E txid \in DOMAIN fs.sessions \ {last.txid} :
          /\ fs.sessions[txid].emap[last.id] # NoSpace
          /\ ReadAll(disk, fs, last.id, txid) # ReadAll(disk, fs, last.id, last.txid)
    /\ ReadAll(disk, fs, last.id, EmptyTxid) # ReadAll(disk, fs, last.id, last.txid)

\* C38: while the last thing a session did to an entity is a del that
\* returned Some(id), read of the entity with the txid of the session returns
\* NoEntity.
C38_DeletedReadsNoEntity ==
    \A txid \in DOMAIN fs.sessions \cap DOMAIN g.view :
        \A id \in Eids :
            g.view[txid][id] = Absent => ReadAll(disk, fs, id, txid).res = "NoEntity"

\* no element occurs twice in the list
NoDup(list) == \A i, j \in 1..Len(list) : list[i] = list[j] => i = j

\* C29: no space occurs twice in the recycle list of a session or of a
\* retained snapshot, and no space occurs in the recycle lists of two
\* retained snapshots.
C29_RecycledOnce ==
    /\ \A txid \in DOMAIN fs.sessions : NoDup(fs.sessions[txid].recycle)
    /\ \A i \in 1..Len(fs.snapshots) : NoDup(fs.snapshots[i].recycle)
    /\ \A i, j \in 1..Len(fs.snapshots) :
          i # j => \A k \in 1..Len(fs.snapshots[i].recycle) :
                      \A l \in 1..Len(fs.snapshots[j].recycle) :
                          fs.snapshots[i].recycle[k] # fs.snapshots[j].recycle[l]

\* the set of blocks of a space
BlockSet(space) == {SpanBlocks(space.spans)[i] : i \in 1..Len(SpanBlocks(space.spans))}

\* a space whose spans are proper and disjoint, that is not longer than its
\* blocks, and that has no block its length does not need (one block for the
\* empty space)
SpaceFits(space) ==
    /\ \A i \in 1..Len(space.spans) : space.spans[i].begin < space.spans[i].end
    /\ NoDup(SpanBlocks(space.spans))
    /\ space.len >= 0
    /\ space.len <= BLK_SIZE * Len(SpanBlocks(space.spans))
    /\ \/ space.len > BLK_SIZE * (Len(SpanBlocks(space.spans)) - 1)
       \/ space.len = 0 /\ Len(SpanBlocks(space.spans)) = 1

\* C33: in every session the spaces allocated by it (those of its emap and
\* those it overwrote or deleted, which are in its recycle list) lie below the
\* watermark and are pairwise disjoint, and every space of its emap has
\* proper, disjoint spans, a length of at most BLK_SIZE times its blocks and
\* no block beyond the need of its length (so no size passed to alloc
\* underflowed).
C33_AllocDisjoint ==
    \A txid \in DOMAIN fs.sessions :
        LET s    == fs.sessions[txid]
            own  == {id \in DOMAIN s.emap : s.emap[id] # NoSpace}
            gone == {k \in 1..Len(s.recycle) : s.recycle[k].txid = txid}
        IN /\ \A id \in own : /\ SpaceFits(s.emap[id])
                              /\ s.emap[id].txid = txid
                              /\ \A b \in BlockSet(s.emap[id]) : b < s.wmark
           /\ \A i, j \in own : i # j => BlockSet(s.emap[i]) \cap BlockSet(s.emap[j]) = {}
           /\ \A i \in own, k \in gone : BlockSet(s.emap[i]) \cap BlockSet(s.recycle[k]) = {}
           /\ \A k, l \in gone : k # l => BlockSet(s.recycle[k]) \cap BlockSet(s.recycle[l]) = {}

\* an entity that was appended to beyond its tail block, next to another
\* entity of the same session
C33_Witness ==
    \E txid \in DOMAIN fs.sessions :
        LET s == fs.sessions[txid]
        IN /\ Len(s.emap[1].spans) = 2
           /\ s.emap[2] # NoSpace
           /\ s.recycle # <<>>

\* C32: every snapshot whose retirement was finished (its emap file removed,
\* by the process that marked its session .dispose or by one that reopened
\* the repository after a kill) had its recycle list passed to
\* SectorMgr::recycle before, so none of its spaces stays allocated forever.
C32_RecycleReturned == g.lost = {}

\* ------------------------------------------------------------------------
\* Allocator watermark (specification SpecAlloc)
\* ------------------------------------------------------------------------

SmallestMultiple(r, x, size) == r % size = 0 /\ r >= x /\ r - size < x

C36_EnrollFrame ==
    /\ [](\A id \in DOMAIN tm.ents : tm.ents[id] \in tm.txs)
    /\ [][last'.op = "add_to_trans" /\ last'.res # "Ok" => tm'.ents = tm.ents]_vars

\* C37: after commit_trans returned, with Ok or with an error, its session is
\* not in the sessions map with status prepare or recycle; no abort_trans
\* panics on its assertion and no commit_trans is refused with Uncompleted.
C37_NoCommittingLeft ==
    /\ last.op = "commit" /\ last.res # "Killed" /\ last.txid \in DOMAIN fs.sessions =>
           ~is_committing(fs.sessions[last.txid].status)
    /\ last.op = "abort" => last.res # "Panic"
    /\ last.op = "commit" => last.res # "Uncompleted"

\* ------------------------------------------------------------------------
\* Lock race (specification SpecRace)
\* ------------------------------------------------------------------------

\* C31: of two openers that run lock_storage at most one holds the lock, and
\* a lock_storage that fails, in its check or in its create, fails with
\* Opened.
C31_LockRace ==
    /\ ~(fs.lock_path /\ other.lock_path)
    /\ last.op \in {"lock_check", "lock_create"} /\ last.res # "Ok" => last.res = "Opened"

\* ------------------------------------------------------------------------
\* Status files (specification SpecStatus)
\* ------------------------------------------------------------------------

\* the rank of a status in the order started, prepare, recycle, committed,
\* dispose
StatusRank(status) ==
    CASE status = "started" -> 1 [] status = "prepare" -> 2 [] status = "recycle" -> 3
      [] status = "committed" -> 4 [] status = "dispose" -> 5 [] OTHER -> 0

\* C30: a status file that appears is .started or is a file that was there
\* under an earlier status; every rename goes to the status that follows;
\* there is never more than one status file of a txid, and every session of
\* the instance has exactly one, with the status the session has; cleanup
\* never reaches its unreachable branch.
C30_StatusForward ==
    [][/\ \A new \in disk'.sessFiles \ disk.sessFiles :
             IF \E old \in disk.sessFiles : old.txid = new.txid
             THEN \E old \in disk.sessFiles :
                     /\ old.txid = new.txid /\ old.seq = new.seq
                     /\ StatusRank(old.status) < StatusRank(new.status)
             ELSE new.status = "started"
       /\ g'.skipped = {}
       /\ \A a, b \in disk'.sessFiles : a.txid = b.txid => a = b
       /\ \A txid \in DOMAIN fs'.sessions :
             SessFile(txid, fs'.sessions[txid].seq, fs'.sessions[txid].status)
                 \in disk'.sessFiles
       /\ last'.res # "Unreachable"]_vars

\* a commit killed while it recycles: the file of its session is .recycle and
\* the file of the snapshot it retires is .dispose
C30_Witness ==
    /\ last.op = "commit"
    /\ last.res = "Killed"
    /\ \E f \in disk.sessFiles : f.txid = last.txid /\ f.status = "recycle"
    /\ \E f \in disk.sessFiles : f.status = "dispose"

\* ------------------------------------------------------------------------
\* SqliteStorage (specification SpecSqlite)
\* ------------------------------------------------------------------------

\* C24: a get that follows a successful put of the same key, with nothing
\* but gets, drops and opens in between, returns Ok and exactly the bytes
\* that were put.
C24_SqliteRoundTrip ==
    /\ last.op = "get_super_block" /\ sq.put.op = "super_block" /\ sq.put.key = last.key
           => last.res = "Ok" /\ last.data = sq.put.data
    /\ last.op = "get_addr" /\ sq.put.op = "addr" /\ sq.put.key = last.key
           => last.res = "Ok" /\ last.data = sq.put.data
    /\ last.op = "get_blocks" /\ sq.put.op = "blocks" /\ sq.put.key = last.key
             /\ last.cnt = Len(sq.put.data)
           => last.res = "Ok" /\ last.data = sq.put.data

\* C25: get_addr of an id that was deleted and not put since returns
\* NotFound; get_blocks over a range with an index that was deleted and not
\* put since returns NotFound, and over a range of indices that were put and
\* not deleted since returns their content; del_addr and del_blocks return
\* Ok, and leave the database as it was when nothing they name is stored.
C25_SqliteDeletion ==
    /\ last.op = "get_addr" /\ last.key \in sq.del => last.res = "NotFound"
    /\ last.op = "get_blocks" /\ Range(last.key, last.cnt) \cap sq.gone # {}
           => last.res = "NotFound"
    /\ last.op = "get_blocks" /\ Range(last.key, last.cnt) \subseteq DOMAIN sq.live
           => /\ last.res = "Ok"
              /\ last.data = [k \in 1..last.cnt |-> sq.live[Plus(last.key, k - 1)]]
    /\ last.op = "del_addr" => last.res = "Ok" /\ (last.cnt = 0 => last.same)
    /\ last.op = "del_blocks" => last.res = "Ok" /\ (last.data = <<>> => last.same)

\* C39: put_super_block for the suffix of the put before it, and put_blocks
\* over a range with an index that holds a block, return Ok.
C39_PutRepeats ==
    [][/\ last'.op = "put_super_block" /\ sq.put.op = "super_block"
             /\ sq.put.key = last'.key
           => last'.res = "Ok"
       /\ last'.op = "put_blocks" /\ Range(last'.key, last'.cnt) \cap DOMAIN sq.live # {}
           => last'.res = "Ok"]_vars

\* C40: get_blocks over a range of which some index holds no block returns
\* NotFound, put_blocks over a range of which no index holds a block returns
\* Ok, and put_blocks and del_blocks change no block outside their range:
\* what get_blocks returns for any other stored index is as before.
C40_FullIndex ==
    [][/\ last'.op = "get_blocks" /\ ~(Range(last'.key, last'.cnt) \subseteq DOMAIN sq.live)
           => last'.res = "NotFound"
       /\ last'.op = "put_blocks" /\ Range(last'.key, last'.cnt) \cap DOMAIN sq.live = {}
           => last'.res = "Ok"
       /\ last'.op \in {"put_blocks", "del_blocks"}
           => \A j \in DOMAIN sq.live \ Range(last'.key, last'.cnt) :
                 get_rows(sq'.blocks, j, 1, 1, <<>>) = get_rows(sq.blocks, j, 1, 1, <<>>)]_vars

\* ------------------------------------------------------------------------
\* Transaction manager (specification SpecTx)
\* ------------------------------------------------------------------------

\* C3: when TxHandle::commit returned an error for a transaction, none of its
\* writes and none of its deletes is visible to reads with the empty txid,
\* in the same process and after reopen: no entity of the base emap has a
\* space that the transaction allocated, and every entity reads as the
\* transactions whose commit returned Ok left it.
C3_FailedCommitInvisible ==
    fs.st = "open" /\ g.refused # {} =>
        /\ \A e \in Eids : fs.emap[e].txid \notin g.refused
        /\ ReadState(disk.blocks, fs.emap) = g.committed

\* C12: when the closure of run or run_all returned an error e, the call
\* returns e, the transaction is in txs no more, no entity is enrolled in it,
\* no thread has it as current txid, and no entity of the base emap has a
\* space that the transaction allocated, also when a step of the abort
\* failed.
C12_ClosureErrAborts ==
    last.op = "tx_abort" =>
        /\ last.res = last.ret
        /\ last.ret \in ClosureErrs
        /\ last.txid \notin tm.txs
        /\ \A id \in DOMAIN tm.ents : tm.ents[id] # last.txid
        /\ \A thread \in Threads : tm.current[thread] # last.txid
        /\ fs.st = "open"
        /\ \A e \in Eids : fs.emap[e].txid # last.txid

C12_Witness ==
    /\ last.op = "tx_abort"
    /\ last.res = "NotFound"
    /\ last.txid \in g.abortFailed
    /\ g.committed # [e \in Eids |-> Absent]

\* C13: when a step of TxHandle::commit failed, the call returns the error of
\* that step (the injected I/O error), the transaction is in txs no more, no
\* entity is enrolled in it, no thread has it as current txid, and it is
\* aborted: no entity of the base emap has a space that it allocated and no
\* snapshot is kept for it.
C13_CommitFailAborts ==
    last.op = "tx_commit" /\ last.res \notin {"Ok", "Killed"} =>
        /\ last.res = "Io"
        /\ last.txid \notin tm.txs
        /\ \A id \in DOMAIN tm.ents : tm.ents[id] # last.txid
        /\ \A thread \in Threads : tm.current[thread] # last.txid
        /\ \A e \in Eids : fs.emap[e].txid # last.txid
        /\ \A i \in DOMAIN fs.snapshots : fs.snapshots[i].txid # last.txid

\* C14: a transaction whose backend abort failed inside TxMgr::abort_trans,
\* and was not re-run with success since, has a record in the WAL queue that
\* begin_abort marked and end_abort did not: the next begin_trans or open
\* finds it and runs the abort again.
C14_FailedAbortKept ==
    fs.st = "open" =>
        \A txid \in g.abortFailed : txid \in Aborting(tm.walq)

\* ------------------------------------------------------------------------
\* Transaction manager and crashes (specification SpecWal)
\* ------------------------------------------------------------------------

\* the WAL queue on disk holds the end_trans record of the transaction
WalEnded(txid) ==
    txid \in DOMAIN disk.walq.recs /\ disk.walq.recs[txid] = "end"

\* C15: at every instant, crash points included: a transaction whose
\* end_trans record is in the saved WAL queue has no session file in another
\* status than committed or dispose, and has such a file until its snapshot
\* is retired; a transaction with a .committed session file has its snapshot
\* file and its emap file; and a commit that returned Ok has its end_trans
\* record in the saved WAL queue.
C15_CommitOrderDurable ==
    /\ \A txid \in DOMAIN disk.walq.recs :
           WalEnded(txid) =>
               /\ \A f \in disk.sessFiles : f.txid = txid => is_completed(f.status)
               /\ \/ \E f \in disk.sessFiles : f.txid = txid
                  \/ txid \in g.passed \cup g.lost
    /\ \A f \in disk.sessFiles :
           f.status = "committed" =>
               f.txid \in DOMAIN disk.snapFiles /\ f.txid \in DOMAIN disk.emapFiles
    /\ last.op = "tx_commit" /\ last.res = "Ok" => WalEnded(last.txid)

\* the process was killed in a commit after the session was renamed to
\* committed and before the WAL queue was saved
C15_Witness ==
    /\ last.op = "tx_commit"
    /\ last.res = "Killed"
    /\ \E f \in disk.sessFiles : f.txid = last.txid /\ f.status = "committed"
    /\ ~WalEnded(last.txid)
    /\ \E txid \in DOMAIN disk.walq.recs : WalEnded(txid)

\* C17: a begin_trans that returns Ok hands out a txid greater than the
\* watermark of the TxMgr before the call, which is no less than every txid
\* the TxMgr handed out and, after TxMgr::open, than every txid for which a
\* session was ever started in the backend; the watermark of a TxMgr never
\* decreases, whatever begins failed or transactions aborted.
C17_TxidsIncrease ==
    /\ [](fs.st = "open" => \A txid \in g.started : txid <= tm.txid_wmark)
    /\ [][last'.op = "tx_begin" /\ last'.res = "Ok" =>
              /\ last'.txid > tm.txid_wmark
              /\ last'.txid = tm'.txid_wmark
              /\ \A txid \in g.started : last'.txid > txid]_vars
    /\ [][fs.st = "open" /\ fs'.st = "open" => tm'.txid_wmark >= tm.txid_wmark]_vars

\* a txid handed out after a reopen that followed started sessions
C17_Witness ==
    /\ last.op = "tx_begin"
    /\ last.res = "Ok"
    /\ g.before # {}
    /\ \A txid \in g.before : last.txid > txid
    /\ last.txid \in g.started

\* ------------------------------------------------------------------------
\* Transaction manager, several threads (specification SpecMgr)
\* ------------------------------------------------------------------------

\* C11: an entity is enrolled in at most one active transaction: every
\* enrolled entity belongs to a transaction of txs; add_to_trans for an
\* entity that another transaction holds returns InTrans and leaves the
\* enrollment as it was; any other add_to_trans (the entity is free, or held
\* by the transaction itself) returns Ok and the entity is enrolled in it.
C11_EnrollExclusive ==
    /\ [](\A id \in DOMAIN tm.ents : tm.ents[id] \in tm.txs)
    /\ [][last'.op = "tx_add" =>
            IF last'.id \in DOMAIN tm.ents /\ tm.ents[last'.id] # last'.txid
            THEN last'.res = "InTrans" /\ tm'.ents = tm.ents
            ELSE last'.res = "Ok" /\ tm'.ents = With(tm.ents, last'.id, last'.txid)]_vars

C11_Witness ==
    /\ last.op = "tx_add"
    /\ last.res = "InTrans"
    /\ last.ret = "held"
    /\ tm.ents[last.id] \in tm.txs \ {last.txid}
    /\ last.txid \in tm.txs

\* C16: begin_trans on a thread that is in a transaction returns InTrans and
\* changes nothing: the TxMgr (txid_wmark, txs, ents, WAL queue, the current
\* txid of every thread), the backend and the disk are as before, and the
\* thread is still in its transaction; a thread that is in no transaction
\* is not refused with InTrans.
C16_NestedBeginRefused ==
    [][last'.op = "tx_begin" /\ last'.id \in Threads =>
          IF tm.current[last'.id] # EmptyTxid
          THEN /\ last'.res = "InTrans"
               /\ last'.txid = tm.current[last'.id]
               /\ last'.txid \in tm.txs
               /\ tm' = tm /\ fs' = fs /\ disk' = disk
          ELSE last'.res # "InTrans"]_vars

C16_Witness ==
    /\ last.op = "tx_begin"
    /\ last.res = "InTrans"
    /\ last.id \in Threads
    /\ tm.current[last.id] = last.txid
    /\ last.txid \in tm.txs
    /\ tm.txid_wmark < MaxMgrTx

\* C19: transactions commit in the order of their txids: the txids of the
\* commits that returned Ok are increasing in the order of the commits, and
\* so are the txids of the snapshots in the order of the deque.
C19_CommitOrderIsTxidOrder ==
    /\ \A i, j \in DOMAIN g.order : i < j => g.order[i] < g.order[j]
    /\ \A i, j \in DOMAIN fs.snapshots :
           i < j => fs.snapshots[i].txid < fs.snapshots[j].txid

\* ------------------------------------------------------------------------
\* COW entities (specification SpecCow)
\* ------------------------------------------------------------------------

============================================================================
